---- MODULE Spec2Model ----
(***************************************************************************)
(* persistent-keystore-rs: the typed field model, the schema validation of *)
(* Table, the Database registry and the Client facade (src/structs.rs,     *)
(* src/lib.rs).  Every Client operation runs with the database mutex held  *)
(* for its whole body, so in Spec, SpecTables and SpecStore each operation *)
(* is one atomic action; SpecShared follows the threads of several Clients *)
(* through the lock itself.                                                *)
(* The store on its path (Client::new, open, save, clone, drop) and the     *)
(* maintenance worker of Saver are the actions of SpecStore, the file       *)
(* being the tokens bincode and lz4 write.  SpecBuild has the chains of     *)
(* TableBuilder and EntryBuilder, SpecWrites the writes with records as a   *)
(* caller can hand them over.  SpecTeardown is the store and its worker    *)
(* under a fair scheduler, SpecFaults the store with saves that fail, a    *)
(* process that stops inside a save, and a second caller of Client::new.   *)
(***************************************************************************)
EXTENDS Integers, Sequences, FiniteSets, TLC

(* ------------------------------------------------------------------ *)
(* Bounds                                                               *)
(* ------------------------------------------------------------------ *)

\* the wall clock runs over 0..MaxTime
MaxTime == 2

(* ------------------------------------------------------------------ *)
(* Option, Result                                                       *)
(* ------------------------------------------------------------------ *)

None == [some |-> FALSE, v |-> 0]

Some(x) == [some |-> TRUE, v |-> x]

Ok == [tag |-> "Ok", err |-> "", name |-> ""]

Err(e) == [tag |-> "Err", err |-> e, name |-> ""]

ErrNamed(e, n) == [tag |-> "Err", err |-> e, name |-> n]

IsOk(r) == r.tag = "Ok"

(* ------------------------------------------------------------------ *)
(* HashMap: a function on the set of its keys.  Iteration order of a    *)
(* HashMap is unspecified: an iteration is any enumeration of the keys. *)
(* ------------------------------------------------------------------ *)

EmptyMap == <<>>

MapInsert(m, k, v) == [x \in (DOMAIN m) \cup {k} |-> IF x = k THEN v ELSE m[x]]

MapRemove(m, k) == [x \in (DOMAIN m) \ {k} |-> m[x]]

IterOrders(S) ==
    {s \in [1..Cardinality(S) -> S] : \A i, j \in 1..Cardinality(S) : s[i] = s[j] => i = j}

\* Vec::remove(index)
VecRemove(v, index) == [i \in 1..(Len(v) - 1) |-> IF i < index THEN v[i] ELSE v[i + 1]]

\* Iterator::position: the first index holding x, 0 when there is none
Position(v, x) ==
    IF \E i \in 1..Len(v) : v[i] = x
    THEN CHOOSE i \in 1..Len(v) : v[i] = x /\ \A j \in 1..(i - 1) : v[j] # x
    ELSE 0

(* ------------------------------------------------------------------ *)
(* Field, FieldType, FieldRequirement                                   *)
(* ------------------------------------------------------------------ *)

FieldVariants == {"String", "I64", "I32", "U64", "U32", "Date", "NotImplemented"}

FieldTypes == {"String", "I64", "I32", "U64", "U32", "Date", "None"}

Field(variant, val) == [variant |-> variant, val |-> val]

NotImplemented == Field("NotImplemented", "")

get_type(f) ==
    CASE f.variant = "String" -> "String"
      [] f.variant = "I32" -> "I32"
      [] f.variant = "I64" -> "I64"
      [] f.variant = "U64" -> "U64"
      [] f.variant = "U32" -> "U32"
      [] f.variant = "Date" -> "Date"
      [] f.variant = "NotImplemented" -> "None"

Required(t) == [requirement |-> "Required", type |-> t]

Optional(t) == [requirement |-> "Optional", type |-> t]

unwrap(r) == r.type

(* ------------------------------------------------------------------ *)
(* Entry                                                                *)
(* ------------------------------------------------------------------ *)

Entry(primary, fields, ts) ==
    [primary_field |-> primary, fields |-> fields, last_timestamp |-> ts]

Entry_new == Entry(NotImplemented, EmptyMap, None)

EntryBuilder_set_primary_field(b, field) ==
    IF get_type(field) = "None"
    THEN [res |-> Err("InvalidPrimaryKey"), builder |-> b]
    ELSE [res |-> Ok, builder |-> [b EXCEPT !.primary_field = field]]

\* add_field taking any value
EntryBuilder_add_field_unchecked(b, key, field) ==
    IF Len(key) = 0
    THEN [res |-> Err("InvalidPrimaryKey"), builder |-> b]
    ELSE [res |-> Ok, builder |-> [b EXCEPT !.fields = MapInsert(b.fields, key, field)]]

EntryBuilder_add_field(b, key, field) ==
    IF get_type(field) = "None"
    THEN [res |-> Err("UnsupportedFieldType"), builder |-> b]
    ELSE IF Len(key) = 0
    THEN [res |-> Err("InvalidPrimaryKey"), builder |-> b]
    ELSE [res |-> Ok, builder |-> [b EXCEPT !.fields = MapInsert(b.fields, key, field)]]

EntryBuilder_build(b) ==
    IF get_type(b.primary_field) = "None" THEN Err("InvalidPrimaryKey")
    ELSE IF Cardinality(DOMAIN b.fields) = 0 THEN Err("EntryMustContainFields")
    ELSE Ok

(* ------------------------------------------------------------------ *)
(* Table                                                                *)
(* ------------------------------------------------------------------ *)

Table_new ==
    [name |-> "", primary_field |-> "None", fields |-> EmptyMap,
     entries |-> EmptyMap, expire_after |-> None]

TableBuilder_name(b, name) == [b EXCEPT !.name = name]

TableBuilder_primary_field(b, primary_key) ==
    IF primary_key = "None"
    THEN [res |-> Err("UnsupportedFieldType"), builder |-> b]
    ELSE [res |-> Ok, builder |-> [b EXCEPT !.primary_field = primary_key]]

TableBuilder_add_field(b, key, field_type) ==
    IF field_type = "None"
    THEN [res |-> Err("UnsupportedFieldType"), builder |-> b]
    ELSE [res |-> Ok,
          builder |-> [b EXCEPT !.fields = MapInsert(b.fields, key, Required(field_type))]]

TableBuilder_add_optional_field(b, key, field_type) ==
    IF field_type = "None"
    THEN [res |-> Err("UnsupportedFieldType"), builder |-> b]
    ELSE [res |-> Ok,
          builder |-> [b EXCEPT !.fields = MapInsert(b.fields, key, Optional(field_type))]]

TableBuilder_add_expiration(b, expire_after) == [b EXCEPT !.expire_after = Some(expire_after)]

\* build looking at the name before the primary key
TableBuilder_build_name_first(b) ==
    IF b.name = "" THEN Err("TableNameNotSet")
    ELSE IF b.primary_field = "None" THEN Err("TableMissingPrimaryKey")
    ELSE IF Cardinality(DOMAIN b.fields) = 0 THEN Err("TableMustContainFields")
    ELSE Ok

TableBuilder_build(b) ==
    IF b.primary_field = "None" THEN Err("TableMissingPrimaryKey")
    ELSE IF b.name = "" THEN Err("TableNameNotSet")
    ELSE IF Cardinality(DOMAIN b.fields) = 0 THEN Err("TableMustContainFields")
    ELSE Ok

Table_get(table, key) ==
    IF key \in DOMAIN table.entries
    THEN [res |-> Ok, entry |-> table.entries[key]]
    ELSE [res |-> Err("EntryDoesNotExists"), entry |-> Entry_new]

\* validate_field_types without the loop over entry.fields
validate_field_types_primary_only(table, entry) ==
    IF table.primary_field # get_type(entry.primary_field)
    THEN Err("MismatchedFieldType")
    ELSE Ok

validate_field_types(table, entry) ==
    IF table.primary_field # get_type(entry.primary_field)
    THEN Err("MismatchedFieldType")
    ELSE IF \E k \in DOMAIN entry.fields :
               /\ k \in DOMAIN table.fields
               /\ unwrap(table.fields[k]) # get_type(entry.fields[k])
         THEN Err("MismatchedFieldType")
         ELSE Ok

\* the loop over entry.fields: ekeys is the part of the iteration still to
\* come, fields the vector of schema keys not yet matched
RECURSIVE EntryFieldsLoop(_, _, _)
EntryFieldsLoop(table, fields, ekeys) ==
    IF ekeys = <<>> THEN [res |-> Ok, fields |-> fields]
    ELSE LET k == Head(ekeys) IN
         IF k \in DOMAIN table.fields
         THEN IF Position(fields, k) # 0
              THEN EntryFieldsLoop(table, VecRemove(fields, Position(fields, k)), Tail(ekeys))
              ELSE [res |-> ErrNamed("UnsupportedField", k), fields |-> fields]
         ELSE [res |-> ErrNamed("UnsupportedField", k), fields |-> fields]

\* the loop over the remaining schema keys taking Optional for Required
RECURSIVE RemainingFieldsLoop_strict(_, _)
RemainingFieldsLoop_strict(table, fields) ==
    IF fields = <<>> THEN Ok
    ELSE LET f == Head(fields) IN
         IF f \in DOMAIN table.fields
         THEN ErrNamed("MissingRequiredField", f)
         ELSE RemainingFieldsLoop_strict(table, Tail(fields))

\* the loop over the schema keys that the entry did not carry
RECURSIVE RemainingFieldsLoop(_, _)
RemainingFieldsLoop(table, fields) ==
    IF fields = <<>> THEN Ok
    ELSE LET f == Head(fields) IN
         IF f \in DOMAIN table.fields /\ table.fields[f].requirement = "Required"
         THEN ErrNamed("MissingRequiredField", f)
         ELSE RemainingFieldsLoop(table, Tail(fields))

\* validate_required_fields looking for a missing Required field before it
\* looks for an undeclared one
validate_required_fields_required_first(table, entry, tkeys, ekeys) ==
    LET omitted == SelectSeq(tkeys, LAMBDA f : f \notin DOMAIN entry.fields)
        r == RemainingFieldsLoop(table, omitted)
    IN  IF ~IsOk(r) THEN r ELSE EntryFieldsLoop(table, tkeys, ekeys).res

\* tkeys: the order in which self.fields.keys() iterates;
\* ekeys: the order in which &entry.fields iterates
validate_required_fields(table, entry, tkeys, ekeys) ==
    LET l == EntryFieldsLoop(table, tkeys, ekeys) IN
    IF ~IsOk(l.res) THEN l.res ELSE RemainingFieldsLoop(table, l.fields)

\* Table::insert without `entry.last_timestamp = Some(SystemTime::now())`
Table_insert_unstamped(table, entry, time, tkeys, ekeys) ==
    LET r1 == validate_field_types(table, entry)
        r2 == validate_required_fields(table, entry, tkeys, ekeys)
    IN  IF ~IsOk(r1) THEN [res |-> r1, table |-> table]
        ELSE IF ~IsOk(r2) THEN [res |-> r2, table |-> table]
        ELSE IF IsOk(Table_get(table, entry.primary_field).res)
             THEN [res |-> Err("EntryExists"), table |-> table]
             ELSE [res |-> Ok,
                   table |-> [table EXCEPT !.entries =
                                 MapInsert(table.entries, entry.primary_field, entry)]]

\* Table::insert deciding EntryExists from what HashMap::insert returns, the
\* new entry already stored
Table_insert_overwriting(table, entry, time, tkeys, ekeys) ==
    LET r1 == validate_field_types(table, entry)
        r2 == validate_required_fields(table, entry, tkeys, ekeys)
        stamped == [entry EXCEPT !.last_timestamp = Some(time)]
        written == [table EXCEPT !.entries =
                       MapInsert(table.entries, stamped.primary_field, stamped)]
    IN  IF ~IsOk(r1) THEN [res |-> r1, table |-> table]
        ELSE IF ~IsOk(r2) THEN [res |-> r2, table |-> table]
        ELSE IF IsOk(Table_get(table, stamped.primary_field).res)
             THEN [res |-> Err("EntryExists"), table |-> written]
             ELSE [res |-> Ok, table |-> written]

\* Table::insert stamping only an entry that comes without a last_timestamp
Table_insert_trusting_stamp(table, entry, time, tkeys, ekeys) ==
    LET r1 == validate_field_types(table, entry)
        r2 == validate_required_fields(table, entry, tkeys, ekeys)
        stamped == IF entry.last_timestamp.some THEN entry
                   ELSE [entry EXCEPT !.last_timestamp = Some(time)]
    IN  IF ~IsOk(r1) THEN [res |-> r1, table |-> table]
        ELSE IF ~IsOk(r2) THEN [res |-> r2, table |-> table]
        ELSE IF IsOk(Table_get(table, stamped.primary_field).res)
             THEN [res |-> Err("EntryExists"), table |-> table]
             ELSE [res |-> Ok,
                   table |-> [table EXCEPT !.entries =
                                 MapInsert(table.entries, stamped.primary_field, stamped)]]

Table_insert(table, entry, time, tkeys, ekeys) ==
    LET r1 == validate_field_types(table, entry)
        r2 == validate_required_fields(table, entry, tkeys, ekeys)
        stamped == [entry EXCEPT !.last_timestamp = Some(time)]
    IN  IF ~IsOk(r1) THEN [res |-> r1, table |-> table]
        ELSE IF ~IsOk(r2) THEN [res |-> r2, table |-> table]
        ELSE IF IsOk(Table_get(table, stamped.primary_field).res)
             THEN [res |-> Err("EntryExists"), table |-> table]
             ELSE [res |-> Ok,
                   table |-> [table EXCEPT !.entries =
                                 MapInsert(table.entries, stamped.primary_field, stamped)]]

\* Table::update writing the new fields over the stored entry's fields
Table_update_merging(table, entry, time, tkeys, ekeys) ==
    LET r1 == validate_field_types(table, entry)
        r2 == validate_required_fields(table, entry, tkeys, ekeys)
        old == IF entry.primary_field \in DOMAIN table.entries
               THEN table.entries[entry.primary_field].fields
               ELSE EmptyMap
        merged == [k \in (DOMAIN old) \cup (DOMAIN entry.fields) |->
                      IF k \in DOMAIN entry.fields THEN entry.fields[k] ELSE old[k]]
        stamped == [entry EXCEPT !.last_timestamp = Some(time), !.fields = merged]
    IN  IF ~IsOk(r1) THEN [res |-> r1, table |-> table]
        ELSE IF ~IsOk(r2) THEN [res |-> r2, table |-> table]
        ELSE [res |-> Ok,
              table |-> [table EXCEPT !.entries =
                            MapInsert(table.entries, stamped.primary_field, stamped)]]

\* Table::update calling validate_required_fields before validate_field_types
Table_update_presence_first(table, entry, time, tkeys, ekeys) ==
    LET r1 == validate_field_types(table, entry)
        r2 == validate_required_fields(table, entry, tkeys, ekeys)
        stamped == [entry EXCEPT !.last_timestamp = Some(time)]
    IN  IF ~IsOk(r2) THEN [res |-> r2, table |-> table]
        ELSE IF ~IsOk(r1) THEN [res |-> r1, table |-> table]
        ELSE [res |-> Ok,
              table |-> [table EXCEPT !.entries =
                            MapInsert(table.entries, stamped.primary_field, stamped)]]

\* Table::update leaving a stored entry's last_timestamp as it was
Table_update_keeping_stamp(table, entry, time, tkeys, ekeys) ==
    LET r1 == validate_field_types(table, entry)
        r2 == validate_required_fields(table, entry, tkeys, ekeys)
        stamped == IF entry.primary_field \in DOMAIN table.entries
                   THEN [entry EXCEPT !.last_timestamp =
                            table.entries[entry.primary_field].last_timestamp]
                   ELSE [entry EXCEPT !.last_timestamp = Some(time)]
    IN  IF ~IsOk(r1) THEN [res |-> r1, table |-> table]
        ELSE IF ~IsOk(r2) THEN [res |-> r2, table |-> table]
        ELSE [res |-> Ok,
              table |-> [table EXCEPT !.entries =
                            MapInsert(table.entries, stamped.primary_field, stamped)]]

Table_update(table, entry, time, tkeys, ekeys) ==
    LET r1 == validate_field_types(table, entry)
        r2 == validate_required_fields(table, entry, tkeys, ekeys)
        stamped == [entry EXCEPT !.last_timestamp = Some(time)]
    IN  IF ~IsOk(r1) THEN [res |-> r1, table |-> table]
        ELSE IF ~IsOk(r2) THEN [res |-> r2, table |-> table]
        ELSE [res |-> Ok,
              table |-> [table EXCEPT !.entries =
                            MapInsert(table.entries, stamped.primary_field, stamped)]]

\* insert_or_update storing the entry before it is validated
Table_insert_or_update_storing(table, entry, time, tkeys, ekeys) ==
    LET stamped == [entry EXCEPT !.last_timestamp = Some(time)]
        written == [table EXCEPT !.entries =
                       MapInsert(table.entries, stamped.primary_field, stamped)]
    IN  [res |-> Table_update(table, entry, time, tkeys, ekeys).res, table |-> written]

Table_insert_or_update(table, entry, time, tkeys, ekeys) ==
    Table_update(table, entry, time, tkeys, ekeys)

\* Table::delete looking the entry up without removing it
Table_delete_keeping(table, primary_field) ==
    IF primary_field \in DOMAIN table.entries
    THEN [res |-> Ok, table |-> table]
    ELSE [res |-> Err("EntryDoesNotExists"), table |-> table]

Table_delete(table, primary_field) ==
    IF primary_field \in DOMAIN table.entries
    THEN [res |-> Ok, table |-> [table EXCEPT !.entries = MapRemove(table.entries, primary_field)]]
    ELSE [res |-> Err("EntryDoesNotExists"), table |-> table]

\* order: the order in which &self.entries iterates
Table_scan(table, order) == [i \in 1..Len(order) |-> table.entries[order[i]]]

(* ------------------------------------------------------------------ *)
(* Database                                                             *)
(* ------------------------------------------------------------------ *)

Database_default == [sync_interval |-> None, tables |-> EmptyMap]

Database_get_table(db, table) ==
    IF table \in DOMAIN db.tables
    THEN [res |-> Ok, table |-> db.tables[table]]
    ELSE [res |-> ErrNamed("TableDoesNotExist", table), table |-> Table_new]

\* a registry that keeps the table it holds under the name
Database_create_table_keeping(db, table) ==
    IF table.name \in DOMAIN db.tables
    THEN [res |-> Ok, database |-> db]
    ELSE [res |-> Ok, database |-> [db EXCEPT !.tables = MapInsert(db.tables, table.name, table)]]

Database_create_table(db, table) ==
    [res |-> Ok, database |-> [db EXCEPT !.tables = MapInsert(db.tables, table.name, table)]]

\* drop_table answering Ok with the table left in place
Database_drop_table_keeping(db, table) ==
    IF table \in DOMAIN db.tables
    THEN [res |-> Ok, database |-> db]
    ELSE [res |-> ErrNamed("TableDoesNotExist", table), database |-> db]

Database_drop_table(db, table) ==
    IF table \in DOMAIN db.tables
    THEN [res |-> Ok, database |-> [db EXCEPT !.tables = MapRemove(db.tables, table)]]
    ELSE [res |-> ErrNamed("TableDoesNotExist", table), database |-> db]

\* order: the order in which self.tables.keys() iterates
Database_list_tables(db, order) == order

(* ------------------------------------------------------------------ *)
(* Client: each operator is the body run with the database lock held;   *)
(* time is the value SystemTime::now() returns inside the call          *)
(* ------------------------------------------------------------------ *)

\* Client::create_table without the lookup of the name
Client_create_table_overwriting(db, table) == Database_create_table(db, table)

Client_create_table(db, table) ==
    IF IsOk(Database_get_table(db, table.name).res)
    THEN [res |-> ErrNamed("TableExists", table.name), database |-> db]
    ELSE Database_create_table(db, table)

Client_list_tables(db, order) == [res |-> Ok, names |-> Database_list_tables(db, order)]

Client_drop_table(db, table) == Database_drop_table(db, table)

\* Client::insert validating the entry before it reports an unknown table
Client_insert_validating_first(db, table, entry, time, tkeys, ekeys) ==
    LET g == Database_get_table(db, table)
        r == Table_insert(g.table, entry, time, tkeys, ekeys)
    IN  IF ~IsOk(r.res) /\ r.res # Err("EntryExists") THEN [res |-> r.res, database |-> db]
        ELSE IF IsOk(g.res)
             THEN [res |-> r.res, database |-> [db EXCEPT !.tables[table] = r.table]]
             ELSE [res |-> ErrNamed("TableDoesNotExist", table), database |-> db]

Client_insert(db, table, entry, time, tkeys, ekeys) ==
    LET g == Database_get_table(db, table) IN
    IF IsOk(g.res)
    THEN LET r == Table_insert(g.table, entry, time, tkeys, ekeys) IN
         [res |-> r.res, database |-> [db EXCEPT !.tables[table] = r.table]]
    ELSE [res |-> ErrNamed("TableDoesNotExist", table), database |-> db]

Client_insert_or_update(db, table, entry, time, tkeys, ekeys) ==
    LET g == Database_get_table(db, table) IN
    IF IsOk(g.res)
    THEN LET r == Table_insert_or_update(g.table, entry, time, tkeys, ekeys) IN
         [res |-> r.res, database |-> [db EXCEPT !.tables[table] = r.table]]
    ELSE [res |-> ErrNamed("TableDoesNotExist", table), database |-> db]

Client_update(db, table, entry, time, tkeys, ekeys) ==
    LET g == Database_get_table(db, table) IN
    IF IsOk(g.res)
    THEN LET r == Table_update(g.table, entry, time, tkeys, ekeys) IN
         [res |-> r.res, database |-> [db EXCEPT !.tables[table] = r.table]]
    ELSE [res |-> ErrNamed("TableDoesNotExist", table), database |-> db]

Client_get(db, table, primary_field) ==
    LET g == Database_get_table(db, table) IN
    IF IsOk(g.res)
    THEN Table_get(g.table, primary_field)
    ELSE [res |-> ErrNamed("TableDoesNotExist", table), entry |-> Entry_new]

Client_delete(db, table, primary_field) ==
    LET g == Database_get_table(db, table) IN
    IF IsOk(g.res)
    THEN LET r == Table_delete(g.table, primary_field) IN
         [res |-> r.res, database |-> [db EXCEPT !.tables[table] = r.table]]
    ELSE [res |-> ErrNamed("TableDoesNotExist", table), database |-> db]

\* the criteria loop passing over a criteria key the item lacks
MeetsCriteria_lenient(i, criteria) ==
    ~ \E k \in DOMAIN criteria :
          IF k \in DOMAIN i.fields THEN criteria[k] # i.fields[k] ELSE FALSE

\* the inner loop over the criteria of delete_many and query: the item is
\* skipped (continue 'L) at the first criteria key it lacks or holds with
\* another value
MeetsCriteria(i, criteria) ==
    ~ \E k \in DOMAIN criteria :
          IF k \in DOMAIN i.fields THEN criteria[k] # i.fields[k] ELSE TRUE

\* the loop ending at the first item it deletes
RECURSIVE DeleteManyLoop_first_match(_, _, _, _)
DeleteManyLoop_first_match(table, items, criteria, deleted) ==
    IF items = <<>> THEN [res |-> Ok, table |-> table, deleted |-> deleted]
    ELSE LET i == Head(items) IN
         IF MeetsCriteria(i, criteria)
         THEN LET d == Table_delete(table, i.primary_field) IN
              [res |-> d.res, table |-> d.table,
               deleted |-> IF IsOk(d.res) THEN deleted + 1 ELSE deleted]
         ELSE DeleteManyLoop_first_match(table, Tail(items), criteria, deleted)

RECURSIVE DeleteManyLoop(_, _, _, _)
DeleteManyLoop(table, items, criteria, deleted) ==
    IF items = <<>> THEN [res |-> Ok, table |-> table, deleted |-> deleted]
    ELSE LET i == Head(items) IN
         IF MeetsCriteria(i, criteria)
         THEN LET d == Table_delete(table, i.primary_field) IN
              IF IsOk(d.res)
              THEN DeleteManyLoop(d.table, Tail(items), criteria, deleted + 1)
              ELSE [res |-> d.res, table |-> d.table, deleted |-> deleted]
         ELSE DeleteManyLoop(table, Tail(items), criteria, deleted)

Client_delete_many(db, table, criteria, order) ==
    LET g == Database_get_table(db, table) IN
    IF IsOk(g.res)
    THEN LET r == DeleteManyLoop(g.table, Table_scan(g.table, order), criteria, 0) IN
         [res |-> r.res, deleted |-> r.deleted,
          database |-> [db EXCEPT !.tables[table] = r.table]]
    ELSE [res |-> ErrNamed("TableDoesNotExist", table), deleted |-> 0, database |-> db]

Client_scan(db, table, order) ==
    LET g == Database_get_table(db, table) IN
    IF IsOk(g.res)
    THEN [res |-> Ok, items |-> Table_scan(g.table, order)]
    ELSE [res |-> ErrNamed("TableDoesNotExist", table), items |-> <<>>]

RECURSIVE QueryLoop(_, _, _)
QueryLoop(items, criteria, results) ==
    IF items = <<>> THEN results
    ELSE LET i == Head(items) IN
         IF MeetsCriteria(i, criteria)
         THEN QueryLoop(Tail(items), criteria, Append(results, i))
         ELSE QueryLoop(Tail(items), criteria, results)

Client_query(db, table, criteria, order) ==
    LET g == Database_get_table(db, table) IN
    IF IsOk(g.res)
    THEN [res |-> Ok, items |-> QueryLoop(Table_scan(g.table, order), criteria, <<>>)]
    ELSE [res |-> ErrNamed("TableDoesNotExist", table), items |-> <<>>]

\* SystemTime::duration_since: Err when the earlier time is the later one
duration_since(current_time, n) ==
    IF current_time >= n THEN [res |-> Ok, d |-> current_time - n]
    ELSE [res |-> Err("SystemTimeError"), d |-> 0]

\* the loop deleting an item from the moment it is expire_after old
RECURSIVE PruneItemsLoop_inclusive(_, _, _, _)
PruneItemsLoop_inclusive(table, items, expire_after, current_time) ==
    IF items = <<>> THEN [res |-> Ok, table |-> table]
    ELSE LET item == Head(items)
             stale == /\ item.last_timestamp.some
                      /\ IsOk(duration_since(current_time, item.last_timestamp.v).res)
                      /\ duration_since(current_time, item.last_timestamp.v).d >= expire_after
         IN  IF stale
             THEN LET d == Table_delete(table, item.primary_field) IN
                  IF IsOk(d.res)
                  THEN PruneItemsLoop_inclusive(d.table, Tail(items), expire_after, current_time)
                  ELSE [res |-> d.res, table |-> d.table]
             ELSE PruneItemsLoop_inclusive(table, Tail(items), expire_after, current_time)

RECURSIVE PruneItemsLoop(_, _, _, _)
PruneItemsLoop(table, items, expire_after, current_time) ==
    IF items = <<>> THEN [res |-> Ok, table |-> table]
    ELSE LET item == Head(items)
             stale == /\ item.last_timestamp.some
                      /\ IsOk(duration_since(current_time, item.last_timestamp.v).res)
                      /\ duration_since(current_time, item.last_timestamp.v).d > expire_after
         IN  IF stale
             THEN LET d == Table_delete(table, item.primary_field) IN
                  IF IsOk(d.res)
                  THEN PruneItemsLoop(d.table, Tail(items), expire_after, current_time)
                  ELSE [res |-> d.res, table |-> d.table]
             ELSE PruneItemsLoop(table, Tail(items), expire_after, current_time)

\* tnames: the order of database.list_tables(); korder: an enumeration of the
\* stored keys, each table's scan following it
RECURSIVE PruneTablesLoop(_, _, _, _)
PruneTablesLoop(db, tnames, korder, current_time) ==
    IF tnames = <<>> THEN [res |-> Ok, database |-> db]
    ELSE LET t == Head(tnames)
             g == Database_get_table(db, t)
         IN  IF IsOk(g.res) /\ g.table.expire_after.some
             THEN LET order == SelectSeq(korder, LAMBDA k : k \in DOMAIN g.table.entries)
                      r == PruneItemsLoop(g.table, Table_scan(g.table, order),
                                          g.table.expire_after.v, current_time)
                      db2 == [db EXCEPT !.tables[t] = r.table]
                  IN  IF IsOk(r.res)
                      THEN PruneTablesLoop(db2, Tail(tnames), korder, current_time)
                      ELSE [res |-> r.res, database |-> db2]
             ELSE PruneTablesLoop(db, Tail(tnames), korder, current_time)

\* prune ending after the first table list_tables names
Client_prune_first_table(db, current_time, tnames, korder) ==
    PruneTablesLoop(db, IF tnames = <<>> THEN tnames ELSE <<Head(tnames)>>,
                    korder, current_time)

Client_prune(db, current_time, tnames, korder) ==
    PruneTablesLoop(db, tnames, korder, current_time)

(* ------------------------------------------------------------------ *)
(* The persisted image: bincode::serialize of the Database (the serde   *)
(* derives of structs.rs), then lz4 compress_prepend_size.  A byte      *)
(* string is a sequence of tokens, one per primitive value written.     *)
(* ------------------------------------------------------------------ *)

Token(kind, n, s) == [k |-> kind, n |-> n, s |-> s]

U8(n) == Token("u8", n, "")

U32(n) == Token("u32", n, "")

U64(n) == Token("u64", n, "")

Bytes(s) == Token("bytes", 0, s)

\* the concatenation of a sequence of byte strings
RECURSIVE Concat(_)
Concat(ss) == IF ss = <<>> THEN <<>> ELSE Head(ss) \o Concat(Tail(ss))

\* serde's variant index: the position in the enum's declaration
FieldVariantOrder == <<"String", "I64", "I32", "U64", "U32", "Date", "NotImplemented">>

FieldTypeOrder == <<"String", "I64", "I32", "U64", "U32", "Date", "None">>

FieldRequirementOrder == <<"Required", "Optional">>

\* a String: its length, then its bytes
ser_String(s) == <<U64(Len(s)), Bytes(s)>>

\* a Duration, and a SystemTime as the Duration since the epoch: seconds, nanoseconds
ser_Duration(d) == <<U64(d), U32(0)>>

ser_Option_Duration(o) == IF o.some THEN <<U8(1)>> \o ser_Duration(o.v) ELSE <<U8(0)>>

\* the payload of a Field variant: a String by its length and bytes, a number
\* by one token of its width
ser_Field(f) ==
    <<U32(Position(FieldVariantOrder, f.variant) - 1)>> \o
    (CASE f.variant = "String" -> ser_String(f.val)
       [] f.variant = "I64" -> <<Token("i64", 0, f.val)>>
       [] f.variant = "I32" -> <<Token("i32", 0, f.val)>>
       [] f.variant = "U64" -> <<Token("u64", 0, f.val)>>
       [] f.variant = "U32" -> <<Token("u32", 0, f.val)>>
       [] f.variant = "Date" -> <<Token("u64", 0, f.val), U32(0)>>
       [] f.variant = "NotImplemented" -> <<>>)

ser_FieldType(t) == <<U32(Position(FieldTypeOrder, t) - 1)>>

ser_FieldRequirement(r) ==
    <<U32(Position(FieldRequirementOrder, r.requirement) - 1)>> \o ser_FieldType(r.type)

\* a HashMap: its length, then each key and value in iteration order.  forder
\* and korder enumerate the field names and the primary keys: every map
\* iterates in the order they give its keys
MapOrder(m, order) == SelectSeq(order, LAMBDA k : k \in DOMAIN m)

\* an Entry written with no last_timestamp
ser_Entry_unstamped(e, forder) ==
    ser_Field(e.primary_field)
    \o <<U64(Cardinality(DOMAIN e.fields))>>
    \o Concat([i \in 1..Len(MapOrder(e.fields, forder)) |->
                  ser_String(MapOrder(e.fields, forder)[i])
                  \o ser_Field(e.fields[MapOrder(e.fields, forder)[i]])])
    \o ser_Option_Duration(None)

ser_Entry(e, forder) ==
    ser_Field(e.primary_field)
    \o <<U64(Cardinality(DOMAIN e.fields))>>
    \o Concat([i \in 1..Len(MapOrder(e.fields, forder)) |->
                  ser_String(MapOrder(e.fields, forder)[i])
                  \o ser_Field(e.fields[MapOrder(e.fields, forder)[i]])])
    \o ser_Option_Duration(e.last_timestamp)

ser_Table(t, forder, korder) ==
    ser_String(t.name)
    \o ser_FieldType(t.primary_field)
    \o <<U64(Cardinality(DOMAIN t.fields))>>
    \o Concat([i \in 1..Len(MapOrder(t.fields, forder)) |->
                  ser_String(MapOrder(t.fields, forder)[i])
                  \o ser_FieldRequirement(t.fields[MapOrder(t.fields, forder)[i]])])
    \o <<U64(Cardinality(DOMAIN t.entries))>>
    \o Concat([i \in 1..Len(MapOrder(t.entries, korder)) |->
                  ser_Field(MapOrder(t.entries, korder)[i])
                  \o ser_Entry(t.entries[MapOrder(t.entries, korder)[i]], forder)])
    \o ser_Option_Duration(t.expire_after)

\* bincode::serialize(&database)
serialize(db, tnames, forder, korder) ==
    ser_Option_Duration(db.sync_interval)
    \o <<U64(Cardinality(DOMAIN db.tables))>>
    \o Concat([i \in 1..Len(tnames) |->
                  ser_String(tnames[i]) \o ser_Table(db.tables[tnames[i]], forder, korder)])

\* A deserializer reads from the front of rest and pushes the value it read on
\* out; a read that fails, or that follows a failed one, leaves Failed.
Reader(bytes) == [ok |-> TRUE, out |-> <<>>, rest |-> bytes]

Failed == [ok |-> FALSE, out |-> <<>>, rest |-> <<>>]

Top(p) == p.out[Len(p.out)]

\* the value n below the top one
Under(p, n) == p.out[Len(p.out) - n]

Pop(p, n) == [p EXCEPT !.out = SubSeq(p.out, 1, Len(p.out) - n)]

Push(p, v) == [p EXCEPT !.out = Append(p.out, v)]

de_number(p, kind) ==
    IF p.ok /\ p.rest # <<>> /\ Head(p.rest).k = kind
    THEN [ok |-> TRUE, out |-> Append(p.out, Head(p.rest).n), rest |-> Tail(p.rest)]
    ELSE Failed

de_payload(p, kind) ==
    IF p.ok /\ p.rest # <<>> /\ Head(p.rest).k = kind
    THEN [ok |-> TRUE, out |-> Append(p.out, Head(p.rest).s), rest |-> Tail(p.rest)]
    ELSE Failed

de_String(p) ==
    LET n == de_number(p, "u64") IN
    IF n.ok /\ n.rest # <<>> /\ Head(n.rest).k = "bytes" /\ Len(Head(n.rest).s) = Top(n)
    THEN [ok |-> TRUE, out |-> Append(p.out, Head(n.rest).s), rest |-> Tail(n.rest)]
    ELSE Failed

\* seconds, then nanoseconds
de_Duration(p) ==
    LET nanos == de_number(de_number(p, "u64"), "u32") IN
    IF nanos.ok THEN Pop(nanos, 1) ELSE Failed

de_Some(p) == IF p.ok THEN Push(Pop(p, 1), Some(Top(p))) ELSE Failed

de_Option_Duration(p) ==
    LET tag == de_number(p, "u8") IN
    IF ~tag.ok THEN Failed
    ELSE IF Top(tag) = 0 THEN Push(Pop(tag, 1), None)
    ELSE IF Top(tag) = 1 THEN de_Some(de_Duration(Pop(tag, 1)))
    ELSE Failed

de_Field(p) ==
    LET index == de_number(p, "u32")
        variant == FieldVariantOrder[Top(index) + 1]
        payload ==
            CASE variant = "String" -> de_String(Pop(index, 1))
              [] variant = "I64" -> de_payload(Pop(index, 1), "i64")
              [] variant = "I32" -> de_payload(Pop(index, 1), "i32")
              [] variant = "U64" -> de_payload(Pop(index, 1), "u64")
              [] variant = "U32" -> de_payload(Pop(index, 1), "u32")
              [] variant = "Date" -> Pop(de_number(de_payload(Pop(index, 1), "u64"), "u32"), 1)
              [] variant = "NotImplemented" -> Push(Pop(index, 1), "")
    IN  IF index.ok /\ Top(index) < Len(FieldVariantOrder) /\ payload.ok
        THEN Push(Pop(payload, 1), Field(variant, Top(payload)))
        ELSE Failed

de_FieldType(p) ==
    LET index == de_number(p, "u32") IN
    IF index.ok /\ Top(index) < Len(FieldTypeOrder)
    THEN Push(Pop(index, 1), FieldTypeOrder[Top(index) + 1])
    ELSE Failed

de_FieldRequirement(p) ==
    LET t == de_FieldType(de_number(p, "u32")) IN
    IF t.ok /\ Under(t, 1) < Len(FieldRequirementOrder)
    THEN Push(Pop(t, 2), [requirement |-> FieldRequirementOrder[Under(t, 1) + 1],
                          type |-> Top(t)])
    ELSE Failed

\* a map, a key and a value on out: the pair is inserted into the map
de_insert(p) ==
    IF p.ok THEN Push(Pop(p, 3), MapInsert(Under(p, 2), Under(p, 1), Top(p))) ELSE Failed

\* a HashMap: its length, then that many pairs
de_map_len(p) ==
    LET n == de_number(p, "u64") IN IF n.ok THEN Push(Pop(n, 1), EmptyMap) ELSE Failed

de_len(p) == IF de_number(p, "u64").ok THEN Top(de_number(p, "u64")) ELSE 0

\* HashMap<String, Field>
RECURSIVE de_EntryFields_pairs(_, _)
de_EntryFields_pairs(p, n) ==
    IF n = 0 \/ ~p.ok THEN p
    ELSE de_EntryFields_pairs(de_insert(de_Field(de_String(p))), n - 1)

de_EntryFields(p) == de_EntryFields_pairs(de_map_len(p), de_len(p))

de_Entry_fields(p) ==
    IF p.ok THEN Push(Pop(p, 3), Entry(Under(p, 2), Under(p, 1), Top(p))) ELSE Failed

de_Entry(p) == de_Entry_fields(de_Option_Duration(de_EntryFields(de_Field(p))))

\* HashMap<String, FieldRequirement>
RECURSIVE de_TableFields_pairs(_, _)
de_TableFields_pairs(p, n) ==
    IF n = 0 \/ ~p.ok THEN p
    ELSE de_TableFields_pairs(de_insert(de_FieldRequirement(de_String(p))), n - 1)

de_TableFields(p) == de_TableFields_pairs(de_map_len(p), de_len(p))

\* HashMap<Field, Entry>
RECURSIVE de_TableEntries_pairs(_, _)
de_TableEntries_pairs(p, n) ==
    IF n = 0 \/ ~p.ok THEN p
    ELSE de_TableEntries_pairs(de_insert(de_Entry(de_Field(p))), n - 1)

de_TableEntries(p) == de_TableEntries_pairs(de_map_len(p), de_len(p))

de_Table_fields(p) ==
    IF p.ok
    THEN Push(Pop(p, 5), [name |-> Under(p, 4), primary_field |-> Under(p, 3),
                          fields |-> Under(p, 2), entries |-> Under(p, 1),
                          expire_after |-> Top(p)])
    ELSE Failed

de_Table(p) ==
    de_Table_fields(
        de_Option_Duration(de_TableEntries(de_TableFields(de_FieldType(de_String(p))))))

\* HashMap<String, Table>
RECURSIVE de_Tables_pairs(_, _)
de_Tables_pairs(p, n) ==
    IF n = 0 \/ ~p.ok THEN p
    ELSE de_Tables_pairs(de_insert(de_Table(de_String(p))), n - 1)

de_Tables(p) == de_Tables_pairs(de_map_len(p), de_len(p))

\* bincode::deserialize::<Database>
deserialize(bytes) ==
    LET p == de_Tables(de_Option_Duration(Reader(bytes))) IN
    IF p.ok
    THEN [res |-> Ok, database |-> [sync_interval |-> Under(p, 1), tables |-> Top(p)]]
    ELSE [res |-> Err("DatabaseSerializationError"), database |-> Database_default]

\* The lz4 block coder is a lossless coder that replaces repeats; it is
\* modelled by the simplest such coder, run-length coding: each maximal run of
\* one token becomes the token and its count.
RunLength(bytes) ==
    CHOOSE n \in 1..Len(bytes) :
        /\ \A i \in 1..n : bytes[i] = bytes[1]
        /\ n = Len(bytes) \/ bytes[n + 1] # bytes[1]

RECURSIVE compress(_)
compress(bytes) ==
    IF bytes = <<>> THEN <<>>
    ELSE <<[count |-> RunLength(bytes), token |-> bytes[1]]>>
         \o compress(SubSeq(bytes, RunLength(bytes) + 1, Len(bytes)))

decompress(block) ==
    Concat([i \in 1..Len(block) |-> [j \in 1..block[i].count |-> block[i].token]])

\* the uncompressed size, then the block
compress_prepend_size(bytes) == [size |-> Len(bytes), block |-> compress(bytes)]

decompress_size_prepended(image) ==
    IF Len(decompress(image.block)) = image.size
    THEN [res |-> Ok, bytes |-> decompress(image.block)]
    ELSE [res |-> Err("DatabaseDecompressionError"), bytes |-> <<>>]

(* ------------------------------------------------------------------ *)
(* Client: the file, and the maintenance worker                         *)
(* ------------------------------------------------------------------ *)

\* the path every Client of the model is created or opened on
Path == "temp.db"

Database_set_sync_duration(db, duration) == [db EXCEPT !.sync_interval = Some(duration)]

\* a maintenance worker thread as std::thread::spawn leaves it: about to poll
\* the stop channel
Worker(d) == [pc |-> "try_recv", d |-> d, wake |-> 0]

\* a save that writes the tables it finds with the sync_interval of a new Database
Client_save_mixing(db, tnames, forder, korder) ==
    [res |-> Ok,
     file |-> Some(compress_prepend_size(
                      serialize([db EXCEPT !.sync_interval = Database_default.sync_interval],
                                tnames, forder, korder)))]

\* Client::save: the file is created or truncated and the compressed
\* serialization of the database written to it
Client_save(db, tnames, forder, korder) ==
    [res |-> Ok,
     file |-> Some(compress_prepend_size(serialize(db, tnames, forder, korder)))]

\* what the path holds when its directory is not there: no file, and none
\* can be created
NoDirectory == [some |-> FALSE, v |-> -1]

\* OpenOptions::new().write(true).read(true).create(true).truncate(true).open(path)
OpenOptions_open(path_file) ==
    IF path_file = NoDirectory THEN Err("DatabaseIoError") ELSE Ok

\* Client::save on what the path holds: the `?` on the open returns the
\* io::Error as DatabaseIoError, nothing written
Client_save_at(path_file, db, tnames, forder, korder) ==
    IF IsOk(OpenOptions_open(path_file))
    THEN Client_save(db, tnames, forder, korder)
    ELSE [res |-> OpenOptions_open(path_file), file |-> path_file]

\* what the file holds when the process stops between the truncate and the
\* end of write_all: nothing, not the four bytes of the size either, or the
\* size and a front part of the block
Truncations(image) ==
    {[size |-> -1, block |-> <<>>]}
    \cup {[size |-> image.size, block |-> SubSeq(image.block, 1, n)] :
             n \in 0..(Len(image.block) - 1)}

\* a thread that has panicked: what its caller is left with
Panicked == [tag |-> "Panic", err |-> "unwrap on an Err value", name |-> ""]

\* Client::new without the look at the path
Client_new_overwriting(path_file, sync_interval, tnames, forder, korder) ==
    LET db == IF sync_interval.some
              THEN Database_set_sync_duration(Database_default, sync_interval.v)
              ELSE Database_default
        saved == Client_save(db, tnames, forder, korder)
    IN  [res |-> saved.res, database |-> db,
         spawned |-> IF sync_interval.some THEN <<Worker(sync_interval.v)>> ELSE <<>>,
         file |-> saved.file]

\* Client::new: path_file is what the path holds
Client_new(path_file, sync_interval, tnames, forder, korder) ==
    IF path_file.some
    THEN [res |-> Err("DatabaseExistsError"), database |-> Database_default,
          spawned |-> <<>>, file |-> path_file]
    ELSE LET db == IF sync_interval.some
                   THEN Database_set_sync_duration(Database_default, sync_interval.v)
                   ELSE Database_default
             saved == Client_save(db, tnames, forder, korder)
         IN  [res |-> saved.res, database |-> db,
              spawned |-> IF sync_interval.some THEN <<Worker(sync_interval.v)>> ELSE <<>>,
              file |-> saved.file]

\* Client::open on a path that need not hold a file
Client_open_creating(path_file) ==
    [res |-> Ok, database |-> Database_default, spawned |-> <<>>,
     file |-> Client_save(Database_default, <<>>, <<>>, <<>>).file]

\* Client::open: open_file never creates the file, and nothing is written
Client_open(path_file) ==
    IF ~path_file.some
    THEN [res |-> ErrNamed("DatabaseDoesNotExist", Path), database |-> Database_default,
          spawned |-> <<>>, file |-> path_file]
    ELSE LET uncompressed == decompress_size_prepended(path_file.v)
             read == deserialize(uncompressed.bytes)
         IN  IF ~IsOk(uncompressed.res)
             THEN [res |-> uncompressed.res, database |-> Database_default,
                   spawned |-> <<>>, file |-> path_file]
             ELSE IF ~IsOk(read.res)
             THEN [res |-> read.res, database |-> Database_default,
                   spawned |-> <<>>, file |-> path_file]
             ELSE [res |-> Ok, database |-> read.database,
                   spawned |-> IF read.database.sync_interval.some
                               THEN <<Worker(read.database.sync_interval.v)>>
                               ELSE <<>>,
                   file |-> path_file]

\* a clone starting a worker of its own
Client_clone_spawning(held, threads) ==
    [handles |-> held + 1,
     workers |-> IF threads = <<>> THEN threads ELSE Append(threads, Worker(threads[1].d))]

\* Client::clone (derived): one more handle on the same Arcs, the Saver among
\* them; no thread is started
Client_clone(held, threads) == [handles |-> held + 1, workers |-> threads]

\* a drop that saves first
Client_drop_saving(db, path_file, held) ==
    [handles |-> held - 1,
     database |-> IF held = 1 THEN Database_default ELSE db,
     file |-> Client_save(db,
                          CHOOSE o \in IterOrders(DOMAIN db.tables) : TRUE,
                          CHOOSE o \in IterOrders(UNION {DOMAIN db.tables[t].fields :
                                                            t \in DOMAIN db.tables}) : TRUE,
                          CHOOSE o \in IterOrders(UNION {DOMAIN db.tables[t].entries :
                                                            t \in DOMAIN db.tables}) : TRUE).file]

\* dropping a Client: the last handle takes the Database with it; the file
\* stays as it is.  The threads have been joined by then.
Client_drop(db, path_file, held) ==
    [handles |-> held - 1,
     database |-> IF held = 1 THEN Database_default ELSE db,
     file |-> path_file]

\* Mutex::new: not held, not poisoned
Mutex_new == [holder |-> None, poisoned |-> FALSE]

\* a lock that does not wait
Mutex_free_always(m) == TRUE

\* Mutex::lock blocks the calling thread until no thread holds the mutex
Mutex_free(m) == m.holder = None

\* a lock that hands out the guard of a poisoned mutex
Mutex_lock_ignoring_poison(m, i) == [res |-> Ok, lock |-> [m EXCEPT !.holder = Some(i)]]

\* Mutex::lock of a free mutex by thread i: the guard, or the PoisonError,
\* whose guard is dropped with it
Mutex_lock(m, i) ==
    IF m.poisoned
    THEN [res |-> Err("PoisonError"), lock |-> m]
    ELSE [res |-> Ok, lock |-> [m EXCEPT !.holder = Some(i)]]

\* the MutexGuard is dropped
Mutex_unlock(m) == [m EXCEPT !.holder = None]

\* the MutexGuard is dropped by a thread that is panicking
Mutex_poison(m) == [holder |-> None, poisoned |-> TRUE]

\* Arc::new(Mutex::new(database)): the pointer to the one allocation, which
\* the variable database stands for
Arc_new == [shared |-> TRUE, own |-> Database_default]

\* a clone that allocates a Database of its own, holding what the pointee holds
Arc_clone_deep(arc, pointee) == [shared |-> FALSE, own |-> pointee]

\* Arc::clone: one more pointer to the same allocation
Arc_clone(arc, pointee) == arc

\* no TableBuilder is held: none was made, or a call consumed it
NoTableBuilder == [stage |-> "none", value |-> Table_new]

NoEntryBuilder == [stage |-> "none", value |-> Entry_new]

(* ------------------------------------------------------------------ *)
(* Inputs of the operations                                             *)
(* ------------------------------------------------------------------ *)

\* names under which tables are created, and names operations are called on
CreateNames == {"MyTable"}

TableNames == {"MyTable", "MySecondTable"}

\* TableBuilder chains: primary_field, then add_field / add_optional_field
\* per declared name, then add_expiration
DeclareField(b, key, how, field_type) ==
    CASE how = "required" -> TableBuilder_add_field(b, key, field_type).builder
      [] how = "optional" -> TableBuilder_add_optional_field(b, key, field_type).builder
      [] OTHER -> b

BuiltTable(name, primary, first, optional, expire) ==
    LET b1 == TableBuilder_primary_field(TableBuilder_name(Table_new, name), primary).builder
        b2 == DeclareField(b1, "FirstKey", first, "I64")
        b3 == DeclareField(b2, "OptionalKey", optional, "String")
    IN  IF expire.some THEN TableBuilder_add_expiration(b3, expire.v) ELSE b3

\* the tables TableBuilder::build returns
TableInputs ==
    {t \in {BuiltTable(n, p, f, o, e) :
                n \in CreateNames, p \in {"String", "I64"},
                f \in {"required", "optional"}, o \in {"none", "optional", "required"},
                e \in {None, Some(1)}} :
        IsOk(TableBuilder_build(t))}

KeyInputs == {Field("String", "a"), Field("String", "b"), Field("I64", "1")}

Absent == Field("Absent", "")

\* a fields map from one choice per field name, Absent leaving the name out
FieldsOf(first, optional, extra) ==
    LET given == [k \in {"FirstKey", "OptionalKey", "ExtraField"} |->
                     CASE k = "FirstKey" -> first
                       [] k = "OptionalKey" -> optional
                       [] OTHER -> extra]
    IN  [k \in {x \in DOMAIN given : given[x] # Absent} |-> given[k]]

EntryFieldsInputs ==
    {FieldsOf(f, o, x) :
        f \in {Absent, Field("I64", "1"), Field("String", "a")},
        o \in {Absent, Field("String", "a"), Field("I64", "1")},
        x \in {Absent, Field("String", "a")}}

\* entries as callers hand them to insert and update: last_timestamp unset
EntryInputs == {Entry(k, fs, None) : k \in KeyInputs, fs \in EntryFieldsInputs}

\* two tables side by side, one pruned and one not, with entries that pass
\* their schema
TwoTables ==
    {BuiltTable(n, "String", "required", "none", e) :
        n \in TableNames, e \in {None, Some(1)}}

FewKeys == {Field("String", "a"), Field("String", "b")}

FewEntries == {Entry(k, FieldsOf(Field("I64", "1"), Absent, Absent), None) : k \in FewKeys}

\* the store that is saved and reopened: one table of two declared fields,
\* with and without expire_after, and one record, with and without the
\* optional field
StoreNames == {"MyTable"}

StoreTables ==
    {BuiltTable(n, "String", "required", "optional", e) :
        n \in StoreNames, e \in {None, Some(1)}}

StoreKeys == {Field("String", "a")}

StoreEntries ==
    {Entry(k, FieldsOf(Field("I64", "1"), o, Absent), None) :
        k \in StoreKeys, o \in {Absent, Field("String", "a")}}

\* records as a caller can hand them to a write: one that conforms, one with
\* the required field missing, one with a value of another type, one with an
\* undeclared field, each without a last_timestamp and with one of the
\* caller's own, which no clock reading equals
WriteEntries ==
    {Entry(Field("String", "a"), fs, ts) :
        fs \in {FieldsOf(Field("I64", "1"), Absent, Absent),
                FieldsOf(Absent, Field("String", "a"), Absent),
                FieldsOf(Field("String", "a"), Absent, Absent),
                FieldsOf(Field("I64", "1"), Absent, Field("String", "a"))},
        ts \in {None, Some(MaxTime + 1)}}

\* the sync_interval given to Client::new
SyncIntervals == {None, Some(1)}

\* Client values held at once
MaxHandles == 2

\* what the builder chains are given: names and keys, the empty one among
\* them, types and values, the absent one among them
BuilderNames == {"", "MyTable"}

BuilderKeys == {"", "FirstKey"}

BuilderTypes == {"I64", "None"}

BuilderFields == {Field("I64", "1"), NotImplemented}

BuilderPrimaryTypes == {"String", "None"}

BuilderPrimaryFields == {Field("String", "a"), NotImplemented}

CriteriaInputs ==
    {FieldsOf(f, o, Absent) :
        f \in {Absent, Field("I64", "1"), Field("I64", "2")},
        o \in {Absent, Field("String", "a")}}

(* ------------------------------------------------------------------ *)
(* State                                                                *)
(* ------------------------------------------------------------------ *)

VARIABLES
    database,   \* the Database behind Arc<Mutex<..>>
    now,        \* the wall clock
    last,       \* the call the caller made last and what it returned
    file,       \* what the path holds: None, or the image written last
    handles,    \* the Client values the caller holds on the store
    workers,    \* the maintenance worker threads of the store
    stop,       \* the stop channel of Saver: "open", "sending", "received"
    lock,       \* the Mutex around the Database: who holds it, and whether it is poisoned
    threads,    \* per Client, the call it is inside of, the lock held
    tbuilder,   \* the TableBuilder chain the caller is in
    ebuilder    \* the EntryBuilder chain the caller is in

vars == <<database, now, last, file, handles, workers, stop, lock, threads, tbuilder, ebuilder>>

\* the lock and the calls in progress under it
sharing == <<lock, threads>>

\* the builder chains
building == <<tbuilder, ebuilder>>

\* what the table and entry operations leave alone
lifecycle == <<file, handles, workers, stop, sharing, building>>

\* what a call leaves with the caller: the arguments (arg a name or a type),
\* the result, and start and pre, the clock and the database when the call began;
\* for a call followed through the lock, the Client it was made through, the
\* lock as it found it, the clock it read and the orders its iterations took
NoCall ==
    [op |-> "none", table |-> "", entry |-> Entry_new, key |-> NotImplemented,
     criteria |-> EmptyMap, new_table |-> Table_new, res |-> Ok,
     out_entry |-> Entry_new, items |-> <<>>, names |-> <<>>, deleted |-> 0,
     arg |-> "", start |-> 0, pre |-> Database_default,
     client |-> 0, lock |-> Mutex_new, time |-> 0, tnames |-> <<>>, forder |-> <<>>,
     korder |-> <<>>, tkeys |-> <<>>, ekeys |-> <<>>,
     sync_interval |-> None, pre_file |-> None, pre_handles |-> 0, pre_workers |-> <<>>]

Call(op, table) ==
    [NoCall EXCEPT !.op = op, !.table = table, !.start = now, !.pre = database,
                   !.pre_file = file, !.pre_handles = handles, !.pre_workers = workers]

\* the readings SystemTime::now() can give inside a call begun at now
ClockReadings == {t \in {now, now + 1} : t <= MaxTime}

TableFieldOrders(table) ==
    IF table \in DOMAIN database.tables
    THEN IterOrders(DOMAIN database.tables[table].fields)
    ELSE {<<>>}

TableEntryOrders(table) ==
    IF table \in DOMAIN database.tables
    THEN IterOrders(DOMAIN database.tables[table].entries)
    ELSE {<<>>}

Idle == last.op = "none"

\* the caller holds a Client and is not inside a call
Ready == Idle /\ handles > 0 /\ stop = "open"

\* a store Client::new created without a sync interval
Init ==
    /\ database = Database_default
    /\ now = 0
    /\ last = NoCall
    /\ file = Client_new(None, None, <<>>, <<>>, <<>>).file
    /\ handles = 1
    /\ workers = <<>>
    /\ stop = "open"
    /\ lock = Mutex_new
    /\ threads = EmptyMap
    /\ tbuilder = NoTableBuilder
    /\ ebuilder = NoEntryBuilder

(* ------------------------------------------------------------------ *)
(* Actions                                                              *)
(* ------------------------------------------------------------------ *)

CreateTableFrom(tables) ==
    /\ Ready
    /\ \E t \in tables :
          LET r == Client_create_table(database, t) IN
          /\ database' = r.database
          /\ last' = [Call("create_table", t.name) EXCEPT !.new_table = t, !.res = r.res]
    /\ UNCHANGED <<now, lifecycle>>

CreateTable == CreateTableFrom(TableInputs)

DropTableFrom(names) ==
    /\ Ready
    /\ \E table \in names :
          LET r == Client_drop_table(database, table) IN
          /\ database' = r.database
          /\ last' = [Call("drop_table", table) EXCEPT !.res = r.res]
    /\ UNCHANGED <<now, lifecycle>>

DropTable == DropTableFrom(TableNames)

ListTables ==
    /\ Ready
    /\ \E order \in IterOrders(DOMAIN database.tables) :
          LET r == Client_list_tables(database, order) IN
          last' = [Call("list_tables", "") EXCEPT !.res = r.res, !.names = r.names]
    /\ UNCHANGED <<database, now, lifecycle>>

InsertFrom(names, entries) ==
    /\ Ready
    /\ \E table \in names, entry \in entries, time \in ClockReadings :
       \E tkeys \in TableFieldOrders(table), ekeys \in IterOrders(DOMAIN entry.fields) :
          LET r == Client_insert(database, table, entry, time, tkeys, ekeys) IN
          /\ database' = r.database
          /\ now' = time
          /\ last' = [Call("insert", table) EXCEPT !.entry = entry, !.res = r.res]
    /\ UNCHANGED lifecycle

Insert == InsertFrom(TableNames, EntryInputs)

InsertOrUpdateFrom(names, entries) ==
    /\ Ready
    /\ \E table \in names, entry \in entries, time \in ClockReadings :
       \E tkeys \in TableFieldOrders(table), ekeys \in IterOrders(DOMAIN entry.fields) :
          LET r == Client_insert_or_update(database, table, entry, time, tkeys, ekeys) IN
          /\ database' = r.database
          /\ now' = time
          /\ last' = [Call("insert_or_update", table) EXCEPT !.entry = entry, !.res = r.res]
    /\ UNCHANGED lifecycle

InsertOrUpdate == InsertOrUpdateFrom(TableNames, EntryInputs)

UpdateFrom(names, entries) ==
    /\ Ready
    /\ \E table \in names, entry \in entries, time \in ClockReadings :
       \E tkeys \in TableFieldOrders(table), ekeys \in IterOrders(DOMAIN entry.fields) :
          LET r == Client_update(database, table, entry, time, tkeys, ekeys) IN
          /\ database' = r.database
          /\ now' = time
          /\ last' = [Call("update", table) EXCEPT !.entry = entry, !.res = r.res]
    /\ UNCHANGED lifecycle

Update == UpdateFrom(TableNames, EntryInputs)

Get ==
    /\ Ready
    /\ \E table \in TableNames, key \in KeyInputs :
          LET r == Client_get(database, table, key) IN
          last' = [Call("get", table) EXCEPT !.key = key, !.res = r.res, !.out_entry = r.entry]
    /\ UNCHANGED <<database, now, lifecycle>>

DeleteFrom(names, keys) ==
    /\ Ready
    /\ \E table \in names, key \in keys :
          LET r == Client_delete(database, table, key) IN
          /\ database' = r.database
          /\ last' = [Call("delete", table) EXCEPT !.key = key, !.res = r.res]
    /\ UNCHANGED <<now, lifecycle>>

Delete == DeleteFrom(TableNames, KeyInputs)

DeleteMany ==
    /\ Ready
    /\ \E table \in TableNames, criteria \in CriteriaInputs :
       \E order \in TableEntryOrders(table) :
          LET r == Client_delete_many(database, table, criteria, order) IN
          /\ database' = r.database
          /\ last' = [Call("delete_many", table) EXCEPT
                         !.criteria = criteria, !.res = r.res, !.deleted = r.deleted]
    /\ UNCHANGED <<now, lifecycle>>

ScanFrom(names) ==
    /\ Ready
    /\ \E table \in names :
       \E order \in TableEntryOrders(table) :
          LET r == Client_scan(database, table, order) IN
          last' = [Call("scan", table) EXCEPT !.res = r.res, !.items = r.items]
    /\ UNCHANGED <<database, now, lifecycle>>

Scan == ScanFrom(TableNames)

Query ==
    /\ Ready
    /\ \E table \in TableNames, criteria \in CriteriaInputs :
       \E order \in TableEntryOrders(table) :
          LET r == Client_query(database, table, criteria, order) IN
          last' = [Call("query", table) EXCEPT
                      !.criteria = criteria, !.res = r.res, !.items = r.items]
    /\ UNCHANGED <<database, now, lifecycle>>

Prune ==
    /\ Ready
    /\ \E time \in ClockReadings :
       \E tnames \in IterOrders(DOMAIN database.tables) :
       \E korder \in IterOrders(UNION {DOMAIN database.tables[t].entries :
                                          t \in DOMAIN database.tables}) :
          LET r == Client_prune(database, time, tnames, korder) IN
          /\ database' = r.database
          /\ now' = time
          /\ last' = [Call("prune", "") EXCEPT !.res = r.res]
    /\ UNCHANGED lifecycle

\* the caller drops the value the call returned
Return ==
    /\ ~Idle
    /\ last' = NoCall
    /\ UNCHANGED <<database, now, lifecycle>>

\* time passes between calls
Tick ==
    /\ Idle
    /\ now < MaxTime
    /\ now' = now + 1
    /\ UNCHANGED <<database, last, lifecycle>>

Next ==
    \/ CreateTable
    \/ DropTable
    \/ ListTables
    \/ Insert
    \/ InsertOrUpdate
    \/ Update
    \/ Get
    \/ Delete
    \/ DeleteMany
    \/ Scan
    \/ Query
    \/ Prune
    \/ Return
    \/ Tick

Spec == Init /\ [][Next]_vars

\* the registry with two tables at once
TablesNext ==
    \/ CreateTableFrom(TwoTables)
    \/ DropTableFrom(TableNames)
    \/ ListTables
    \/ InsertFrom(TableNames, FewEntries)
    \/ UpdateFrom(TableNames, FewEntries)
    \/ DeleteFrom(TableNames, FewKeys)
    \/ ScanFrom(TableNames)
    \/ Prune
    \/ Return
    \/ Tick

SpecTables == Init /\ [][TablesNext]_vars

(* ------------------------------------------------------------------ *)
(* The store on its path: new, open, save, clone, drop, and the         *)
(* maintenance worker                                                   *)
(* ------------------------------------------------------------------ *)

\* the orders in which one serialization iterates the maps of the database
FieldNameOrders ==
    IterOrders(UNION {DOMAIN database.tables[t].fields : t \in DOMAIN database.tables})

PrimaryKeyOrders ==
    IterOrders(UNION {DOMAIN database.tables[t].entries : t \in DOMAIN database.tables})

\* no Client exists and the path holds no file
StoreInit ==
    /\ database = Database_default
    /\ now = 0
    /\ last = NoCall
    /\ file = None
    /\ handles = 0
    /\ workers = <<>>
    /\ stop = "open"
    /\ lock = Mutex_new
    /\ threads = EmptyMap
    /\ tbuilder = NoTableBuilder
    /\ ebuilder = NoEntryBuilder

New ==
    /\ Idle
    /\ stop = "open"
    /\ \E sync_interval \in SyncIntervals :
          LET r == Client_new(file, sync_interval, <<>>, <<>>, <<>>) IN
          /\ last' = [Call("new", "") EXCEPT !.sync_interval = sync_interval, !.res = r.res]
          /\ IF IsOk(r.res)
             THEN /\ database' = r.database
                  /\ file' = r.file
                  /\ handles' = 1
                  /\ workers' = r.spawned
             ELSE UNCHANGED <<database, file, handles, workers>>
    /\ UNCHANGED <<now, stop, sharing, building>>

\* the path is opened once the Client held on it is gone
Open ==
    /\ Idle
    /\ stop = "open"
    /\ handles = 0
    /\ LET r == Client_open(file) IN
       /\ last' = [Call("open", "") EXCEPT !.res = r.res]
       /\ file' = r.file
       /\ IF IsOk(r.res)
          THEN /\ database' = r.database
               /\ handles' = 1
               /\ workers' = r.spawned
          ELSE UNCHANGED <<database, handles, workers>>
    /\ UNCHANGED <<now, stop, sharing, building>>

Save ==
    /\ Ready
    /\ \E tnames \in IterOrders(DOMAIN database.tables) :
       \E forder \in FieldNameOrders, korder \in PrimaryKeyOrders :
          LET r == Client_save(database, tnames, forder, korder) IN
          /\ file' = r.file
          /\ last' = [Call("save", "") EXCEPT !.res = r.res]
    /\ UNCHANGED <<database, now, handles, workers, stop, sharing, building>>

Clone ==
    /\ Ready
    /\ handles < MaxHandles
    /\ LET r == Client_clone(handles, workers) IN
       /\ handles' = r.handles
       /\ workers' = r.workers
    /\ last' = Call("clone", "")
    /\ UNCHANGED <<database, now, file, stop, sharing, building>>

\* a Client is dropped while another is held, or the store has no Saver
Drop ==
    /\ Ready
    /\ handles > 1 \/ workers = <<>>
    /\ LET r == Client_drop(database, file, handles) IN
       /\ handles' = r.handles
       /\ database' = r.database
       /\ file' = r.file
    /\ last' = Call("drop", "")
    /\ UNCHANGED <<now, workers, stop, sharing, building>>

\* a drop that leaves the message for the worker and does not wait for it
DropSend_detaching ==
    /\ Ready
    /\ handles = 1
    /\ workers # <<>>
    /\ stop' = "sending"
    /\ LET r == Client_drop(database, file, handles) IN
       /\ handles' = r.handles
       /\ database' = r.database
       /\ file' = r.file
    /\ last' = Call("drop", "")
    /\ UNCHANGED <<now, workers, sharing, building>>

\* the last Client of a store with a Saver is dropped: Saver::drop blocks in
\* killer.send until the worker takes the message
DropSend ==
    /\ Ready
    /\ handles = 1
    /\ workers # <<>>
    /\ stop' = "sending"
    /\ UNCHANGED <<database, now, last, file, handles, workers, sharing, building>>

\* handle.join() returns once the thread has ended, and the drop is complete
DropJoin ==
    /\ Idle
    /\ stop = "received"
    /\ \A i \in 1..Len(workers) : workers[i].pc = "ended"
    /\ LET r == Client_drop(database, file, handles) IN
       /\ handles' = r.handles
       /\ database' = r.database
       /\ file' = r.file
    /\ last' = Call("drop", "")
    /\ workers' = <<>>
    /\ stop' = "open"
    /\ UNCHANGED <<now, sharing, building>>

\* a worker that never looks at the stop channel
WorkerTryRecv_deaf ==
    /\ Idle
    /\ \E i \in 1..Len(workers) :
          /\ workers[i].pc = "try_recv"
          /\ workers' = [workers EXCEPT ![i].pc = "sleep",
                                         ![i].wake = now + workers[i].d]
          /\ UNCHANGED stop
    /\ UNCHANGED <<database, now, last, file, handles, sharing, building>>

\* the worker loop: rx.try_recv(), breaking on a message
WorkerTryRecv ==
    /\ Idle
    /\ \E i \in 1..Len(workers) :
          /\ workers[i].pc = "try_recv"
          /\ IF stop = "sending"
             THEN /\ stop' = "received"
                  /\ workers' = [workers EXCEPT ![i].pc = "ended"]
             ELSE /\ workers' = [workers EXCEPT ![i].pc = "sleep",
                                                ![i].wake = now + workers[i].d]
                  /\ UNCHANGED stop
    /\ UNCHANGED <<database, now, last, file, handles, sharing, building>>

\* a worker that polls the stop channel when it wakes
WorkerSleep_checking ==
    /\ Idle
    /\ \E i \in 1..Len(workers) :
          /\ workers[i].pc = "sleep"
          /\ now >= workers[i].wake
          /\ IF stop = "sending"
             THEN /\ stop' = "received"
                  /\ workers' = [workers EXCEPT ![i].pc = "ended"]
             ELSE /\ workers' = [workers EXCEPT ![i].pc = "prune"]
                  /\ UNCHANGED stop
    /\ UNCHANGED <<database, now, last, file, handles, sharing, building>>

\* sleep(d) returns no earlier than d after it was called
WorkerSleep ==
    /\ Idle
    /\ \E i \in 1..Len(workers) :
          /\ workers[i].pc = "sleep"
          /\ now >= workers[i].wake
          /\ workers' = [workers EXCEPT ![i].pc = "prune"]
    /\ UNCHANGED <<database, now, last, file, handles, stop, sharing, building>>

\* a worker that polls the stop channel after its prune and leaves the save out
WorkerPrune_ending ==
    /\ Idle
    /\ \E i \in 1..Len(workers) :
          /\ workers[i].pc = "prune"
          /\ \E time \in ClockReadings :
             \E tnames \in IterOrders(DOMAIN database.tables), korder \in PrimaryKeyOrders :
                /\ database' = Client_prune(database, time, tnames, korder).database
                /\ now' = time
          /\ IF stop = "sending"
             THEN /\ stop' = "received"
                  /\ workers' = [workers EXCEPT ![i].pc = "ended"]
             ELSE /\ workers' = [workers EXCEPT ![i].pc = "save"]
                  /\ UNCHANGED stop
    /\ UNCHANGED <<last, file, handles, sharing, building>>

\* c.prune().unwrap()
WorkerPrune ==
    /\ Idle
    /\ \E i \in 1..Len(workers) :
          /\ workers[i].pc = "prune"
          /\ \E time \in ClockReadings :
             \E tnames \in IterOrders(DOMAIN database.tables), korder \in PrimaryKeyOrders :
                /\ database' = Client_prune(database, time, tnames, korder).database
                /\ now' = time
          /\ workers' = [workers EXCEPT ![i].pc = "save"]
    /\ UNCHANGED <<last, file, handles, stop, sharing, building>>

\* c.save().unwrap()
WorkerSave ==
    /\ Idle
    /\ \E i \in 1..Len(workers) :
          /\ workers[i].pc = "save"
          /\ \E tnames \in IterOrders(DOMAIN database.tables) :
             \E forder \in FieldNameOrders, korder \in PrimaryKeyOrders :
                file' = Client_save(database, tnames, forder, korder).file
          /\ workers' = [workers EXCEPT ![i].pc = "try_recv"]
    /\ UNCHANGED <<database, now, last, handles, stop, sharing, building>>

StoreNext ==
    \/ New
    \/ Open
    \/ Save
    \/ Clone
    \/ Drop
    \/ DropSend
    \/ DropJoin
    \/ WorkerTryRecv
    \/ WorkerSleep
    \/ WorkerPrune
    \/ WorkerSave
    \/ CreateTableFrom(StoreTables)
    \/ DropTableFrom(StoreNames)
    \/ InsertFrom(StoreNames, StoreEntries)
    \/ UpdateFrom(StoreNames, StoreEntries)
    \/ DeleteFrom(StoreNames, StoreKeys)
    \/ Prune
    \/ Return
    \/ Tick

SpecStore == StoreInit /\ [][StoreNext]_vars

(* ------------------------------------------------------------------ *)
(* The builders: Table::new() and Entry::new() chains, each call taking *)
(* the builder by value and handing it back in Ok                       *)
(* ------------------------------------------------------------------ *)

Building(value) == [stage |-> "building", value |-> value]

Built(value) == [stage |-> "built", value |-> value]

TableNew ==
    /\ Idle
    /\ tbuilder.stage = "none"
    /\ tbuilder' = Building(Table_new)
    /\ UNCHANGED <<database, now, last, file, handles, workers, stop, sharing, ebuilder>>

TbName ==
    /\ Idle
    /\ tbuilder.stage = "building"
    /\ \E name \in BuilderNames :
          tbuilder' = Building(TableBuilder_name(tbuilder.value, name))
    /\ UNCHANGED <<database, now, last, file, handles, workers, stop, sharing, ebuilder>>

TbPrimaryField ==
    /\ Idle
    /\ tbuilder.stage = "building"
    /\ \E primary_key \in BuilderPrimaryTypes :
          LET r == TableBuilder_primary_field(tbuilder.value, primary_key) IN
          /\ tbuilder' = IF IsOk(r.res) THEN Building(r.builder) ELSE NoTableBuilder
          /\ last' = [Call("primary_field", "") EXCEPT !.arg = primary_key, !.res = r.res]
    /\ UNCHANGED <<database, now, file, handles, workers, stop, sharing, ebuilder>>

TbAddField ==
    /\ Idle
    /\ tbuilder.stage = "building"
    /\ \E field_type \in BuilderTypes :
          LET r == TableBuilder_add_field(tbuilder.value, "FirstKey", field_type) IN
          /\ tbuilder' = IF IsOk(r.res) THEN Building(r.builder) ELSE NoTableBuilder
          /\ last' = [Call("add_field", "") EXCEPT !.arg = field_type, !.res = r.res]
    /\ UNCHANGED <<database, now, file, handles, workers, stop, sharing, ebuilder>>

TbAddOptionalField ==
    /\ Idle
    /\ tbuilder.stage = "building"
    /\ \E field_type \in BuilderTypes :
          LET r == TableBuilder_add_optional_field(tbuilder.value, "OptionalKey", field_type) IN
          /\ tbuilder' = IF IsOk(r.res) THEN Building(r.builder) ELSE NoTableBuilder
          /\ last' = [Call("add_optional_field", "") EXCEPT !.arg = field_type, !.res = r.res]
    /\ UNCHANGED <<database, now, file, handles, workers, stop, sharing, ebuilder>>

TbAddExpiration ==
    /\ Idle
    /\ tbuilder.stage = "building"
    /\ tbuilder' = Building(TableBuilder_add_expiration(tbuilder.value, 1))
    /\ UNCHANGED <<database, now, last, file, handles, workers, stop, sharing, ebuilder>>

\* build consumes the builder and returns the table, or an error
TbBuild ==
    /\ Idle
    /\ tbuilder.stage = "building"
    /\ LET r == TableBuilder_build(tbuilder.value) IN
       /\ tbuilder' = IF IsOk(r) THEN Built(tbuilder.value) ELSE NoTableBuilder
       /\ last' = [Call("table_build", "") EXCEPT !.new_table = tbuilder.value, !.res = r]
    /\ UNCHANGED <<database, now, file, handles, workers, stop, sharing, ebuilder>>

\* the table build returned is given to Client::create_table
CreateBuiltTable ==
    /\ Ready
    /\ tbuilder.stage = "built"
    /\ LET r == Client_create_table(database, tbuilder.value) IN
       /\ database' = r.database
       /\ last' = [Call("create_table", tbuilder.value.name) EXCEPT
                      !.new_table = tbuilder.value, !.res = r.res]
    /\ tbuilder' = NoTableBuilder
    /\ UNCHANGED <<now, file, handles, workers, stop, sharing, ebuilder>>

EntryNew ==
    /\ Idle
    /\ ebuilder.stage = "none"
    /\ ebuilder' = Building(Entry_new)
    /\ UNCHANGED <<database, now, last, file, handles, workers, stop, sharing, tbuilder>>

EbSetPrimaryField ==
    /\ Idle
    /\ ebuilder.stage = "building"
    /\ \E field \in BuilderPrimaryFields :
          LET r == EntryBuilder_set_primary_field(ebuilder.value, field) IN
          /\ ebuilder' = IF IsOk(r.res) THEN Building(r.builder) ELSE NoEntryBuilder
          /\ last' = [Call("set_primary_field", "") EXCEPT !.key = field, !.res = r.res]
    /\ UNCHANGED <<database, now, file, handles, workers, stop, sharing, tbuilder>>

EbAddField ==
    /\ Idle
    /\ ebuilder.stage = "building"
    /\ \E key \in BuilderKeys, field \in BuilderFields :
          LET r == EntryBuilder_add_field(ebuilder.value, key, field) IN
          /\ ebuilder' = IF IsOk(r.res) THEN Building(r.builder) ELSE NoEntryBuilder
          /\ last' = [Call("entry_add_field", "") EXCEPT
                         !.arg = key, !.key = field, !.res = r.res]
    /\ UNCHANGED <<database, now, file, handles, workers, stop, sharing, tbuilder>>

EbBuild ==
    /\ Idle
    /\ ebuilder.stage = "building"
    /\ LET r == EntryBuilder_build(ebuilder.value) IN
       /\ ebuilder' = IF IsOk(r) THEN Built(ebuilder.value) ELSE NoEntryBuilder
       /\ last' = [Call("entry_build", "") EXCEPT !.entry = ebuilder.value, !.res = r]
    /\ UNCHANGED <<database, now, file, handles, workers, stop, sharing, tbuilder>>

\* the entry build returned is given to Client::insert or Client::update
WriteBuiltEntry ==
    /\ Ready
    /\ ebuilder.stage = "built"
    /\ \E table \in CreateNames, op \in {"insert", "update"}, time \in ClockReadings :
       \E tkeys \in TableFieldOrders(table), ekeys \in IterOrders(DOMAIN ebuilder.value.fields) :
          LET r == IF op = "insert"
                   THEN Client_insert(database, table, ebuilder.value, time, tkeys, ekeys)
                   ELSE Client_update(database, table, ebuilder.value, time, tkeys, ekeys)
          IN  /\ database' = r.database
              /\ now' = time
              /\ last' = [Call(op, table) EXCEPT !.entry = ebuilder.value, !.res = r.res]
    /\ ebuilder' = NoEntryBuilder
    /\ UNCHANGED <<file, handles, workers, stop, sharing, tbuilder>>

BuildNext ==
    \/ TableNew
    \/ TbName
    \/ TbPrimaryField
    \/ TbAddField
    \/ TbAddOptionalField
    \/ TbAddExpiration
    \/ TbBuild
    \/ CreateBuiltTable
    \/ EntryNew
    \/ EbSetPrimaryField
    \/ EbAddField
    \/ EbBuild
    \/ WriteBuiltEntry
    \/ DropTableFrom(CreateNames)
    \/ Return

SpecBuild == Init /\ [][BuildNext]_vars

(* ------------------------------------------------------------------ *)
(* The Clients of one store and the lock: every Client operation is     *)
(* if let Ok(db) = self.database.lock() { body; return } followed by    *)
(* Err(UnableToGetLock).  Client 0 is the clone the maintenance worker  *)
(* captured, the others are the handles of the callers, one thread per  *)
(* handle.  The loops of delete_many and prune are taken item by item   *)
(* and table by table.  save locks raw_file inside the database lock,   *)
(* and nothing else locks raw_file.                                     *)
(* ------------------------------------------------------------------ *)

SharedTables == {BuiltTable("MyTable", "String", "required", "none", Some(1))}

SharedKeys == {Field("String", "a")}

SharedEntries ==
    {Entry(k, FieldsOf(Field("I64", "1"), Absent, Absent), None) : k \in SharedKeys}

SharedCriteria == {FieldsOf(Field("I64", "1"), Absent, Absent)}

\* the calls made through a handle
SharedCalls ==
    {[NoCall EXCEPT !.op = "create_table", !.table = t.name, !.new_table = t] :
        t \in SharedTables}
    \cup {[NoCall EXCEPT !.op = op, !.table = "MyTable"] : op \in {"drop_table", "scan"}}
    \cup {[NoCall EXCEPT !.op = op] : op \in {"list_tables", "prune", "save"}}
    \cup {[NoCall EXCEPT !.op = "insert", !.table = "MyTable", !.entry = e] :
             e \in SharedEntries}
    \cup {[NoCall EXCEPT !.op = op, !.table = "MyTable",
                         !.entry = Entry(Field("String", "a"),
                                         FieldsOf(Field("I64", "1"), Absent, Absent), None)] :
             op \in {"insert_or_update", "update"}}
    \cup {[NoCall EXCEPT !.op = op, !.table = "MyTable", !.key = k] :
             op \in {"get", "delete"}, k \in {Field("String", "a")}}
    \cup {[NoCall EXCEPT !.op = op, !.table = "MyTable", !.criteria = c] :
             op \in {"delete_many", "query"}, c \in SharedCriteria}

\* a Client in the hands of its thread: the Arc it holds, and the call the
\* thread is inside of
Thread(arc) == [pc |-> "idle", database |-> arc, call |-> NoCall, todo |-> <<>>]

\* what the Arc points at
Deref(arc) == IF arc.shared THEN database ELSE arc.own

\* the entries of a table of db, none when it is not registered
EntriesOf(db, table) ==
    IF table \in DOMAIN db.tables THEN db.tables[table].entries ELSE EmptyMap

\* the clock reading and the iteration orders a body takes on db; the clock
\* moves between the lock and the body by Tick
Readings(c, db) ==
    LET keys == UNION {DOMAIN db.tables[t].entries : t \in DOMAIN db.tables}
        names == UNION {DOMAIN db.tables[t].fields : t \in DOMAIN db.tables}
        fields == IF c.table \in DOMAIN db.tables
                  THEN DOMAIN db.tables[c.table].fields ELSE {}
    IN  {[c EXCEPT !.time = time, !.tnames = tnames, !.forder = forder,
                   !.korder = korder, !.tkeys = tkeys, !.ekeys = ekeys] :
            time \in {now},
            tnames \in IF c.op \in {"list_tables", "save"}
                       THEN IterOrders(DOMAIN db.tables) ELSE {<<>>},
            forder \in IF c.op = "save" THEN IterOrders(names) ELSE {<<>>},
            korder \in IF c.op = "save" THEN IterOrders(keys)
                       ELSE IF c.op \in {"scan", "query"}
                       THEN IterOrders(DOMAIN EntriesOf(db, c.table)) ELSE {<<>>},
            tkeys \in IF c.op \in {"insert", "insert_or_update", "update"}
                      THEN IterOrders(fields) ELSE {<<>>},
            ekeys \in IF c.op \in {"insert", "insert_or_update", "update"}
                      THEN IterOrders(DOMAIN c.entry.fields) ELSE {<<>>}}

\* the body of the operation c names, run in one piece on db with the readings
\* c holds: what it returns and what it leaves in the database and the file
Outcome(c, db, path_file) ==
    LET same == [res |-> Ok, database |-> db, file |-> path_file,
                 out_entry |-> Entry_new, items |-> <<>>, names |-> <<>>, deleted |-> 0]
    IN  CASE c.op = "create_table" ->
               LET r == Client_create_table(db, c.new_table) IN
               [same EXCEPT !.res = r.res, !.database = r.database]
          [] c.op = "drop_table" ->
               LET r == Client_drop_table(db, c.table) IN
               [same EXCEPT !.res = r.res, !.database = r.database]
          [] c.op = "list_tables" ->
               LET r == Client_list_tables(db, c.tnames) IN
               [same EXCEPT !.res = r.res, !.names = r.names]
          [] c.op = "insert" ->
               LET r == Client_insert(db, c.table, c.entry, c.time, c.tkeys, c.ekeys) IN
               [same EXCEPT !.res = r.res, !.database = r.database]
          [] c.op = "insert_or_update" ->
               LET r == Client_insert_or_update(db, c.table, c.entry, c.time,
                                                c.tkeys, c.ekeys) IN
               [same EXCEPT !.res = r.res, !.database = r.database]
          [] c.op = "update" ->
               LET r == Client_update(db, c.table, c.entry, c.time, c.tkeys, c.ekeys) IN
               [same EXCEPT !.res = r.res, !.database = r.database]
          [] c.op = "get" ->
               LET r == Client_get(db, c.table, c.key) IN
               [same EXCEPT !.res = r.res, !.out_entry = r.entry]
          [] c.op = "delete" ->
               LET r == Client_delete(db, c.table, c.key) IN
               [same EXCEPT !.res = r.res, !.database = r.database]
          [] c.op = "delete_many" ->
               LET r == Client_delete_many(db, c.table, c.criteria, c.korder) IN
               [same EXCEPT !.res = r.res, !.database = r.database, !.deleted = r.deleted]
          [] c.op = "scan" ->
               LET r == Client_scan(db, c.table, c.korder) IN
               [same EXCEPT !.res = r.res, !.items = r.items]
          [] c.op = "query" ->
               LET r == Client_query(db, c.table, c.criteria, c.korder) IN
               [same EXCEPT !.res = r.res, !.items = r.items]
          [] c.op = "prune" ->
               LET r == Client_prune(db, c.time, c.tnames, c.korder) IN
               [same EXCEPT !.res = r.res, !.database = r.database]
          [] c.op = "save" ->
               LET r == Client_save(db, c.tnames, c.forder, c.korder) IN
               [same EXCEPT !.res = r.res, !.file = r.file]
          [] OTHER -> same

\* the worker loop after a call of its own returned: c.prune().unwrap() and
\* c.save().unwrap() panic on an error
WorkerAfter(i, res) ==
    IF i # 0 THEN workers
    ELSE [workers EXCEPT ![1].pc = IF ~IsOk(res) THEN "panicked"
                                    ELSE IF @ = "prune" THEN "save" ELSE "try_recv"]

\* the threads once the call of thread i has returned res; the worker thread
\* is gone with its panic
ThreadsAfter(i, res) ==
    IF i = 0 /\ ~IsOk(res) THEN MapRemove(threads, i)
    ELSE [threads EXCEPT ![i].pc = "idle", ![i].call = NoCall, ![i].todo = <<>>]

\* db is written through the Arc of Client i, the threads becoming ts
Store(i, db, ts) ==
    IF threads[i].database.shared
    THEN /\ database' = db
         /\ threads' = ts
    ELSE /\ database' = database
         /\ threads' = IF i \in DOMAIN ts THEN [ts EXCEPT ![i].database.own = db] ELSE ts

\* the head of every Client operation: self.database.lock(), and on a
\* poisoned lock the fall through to Err(UnableToGetLock)
Lock(i, call) ==
    /\ Idle
    /\ threads[i].pc = "idle"
    /\ Mutex_free(lock)
    /\ LET r == Mutex_lock(lock, i)
           c == [call EXCEPT !.client = i, !.lock = lock, !.start = now, !.time = now,
                             !.pre = Deref(threads[i].database), !.pre_file = file,
                             !.pre_handles = handles, !.pre_workers = workers]
       IN  IF IsOk(r.res)
           THEN /\ lock' = r.lock
                /\ threads' = [threads EXCEPT ![i].pc = "locked", ![i].call = c]
                /\ UNCHANGED <<last, workers>>
           ELSE /\ lock' = r.lock
                /\ last' = [c EXCEPT !.res = Err("UnableToGetLock")]
                /\ threads' = ThreadsAfter(i, Err("UnableToGetLock"))
                /\ workers' = WorkerAfter(i, Err("UnableToGetLock"))
    /\ UNCHANGED <<database, now, file, handles, stop, building>>

\* the return of an operation: the guard is dropped and the caller has r
Unlock(i, c, r) ==
    /\ lock' = Mutex_unlock(lock)
    /\ Store(i, r.database, ThreadsAfter(i, r.res))
    /\ file' = r.file
    /\ last' = [c EXCEPT !.res = r.res, !.out_entry = r.out_entry, !.items = r.items,
                         !.names = r.names, !.deleted = r.deleted]
    /\ workers' = WorkerAfter(i, r.res)

\* a caller calls an operation through its handle
ClientCall ==
    \E i \in DOMAIN threads \ {0}, call \in SharedCalls : Lock(i, call)

\* the worker loop: c.prune() and c.save()
WorkerCall ==
    /\ workers # <<>>
    /\ workers[1].pc \in {"prune", "save"}
    /\ 0 \in DOMAIN threads
    /\ Lock(0, [NoCall EXCEPT !.op = workers[1].pc])

\* the body of an operation without a loop that writes
Body ==
    /\ Idle
    /\ \E i \in DOMAIN threads :
          /\ threads[i].pc = "locked"
          /\ threads[i].call.op \notin {"delete_many", "prune"}
          /\ \E c \in Readings(threads[i].call, Deref(threads[i].database)) :
                Unlock(i, c, Outcome(c, Deref(threads[i].database), file))
    /\ UNCHANGED <<now, handles, stop, building>>

\* delete_many up to its loop: get_table and t.scan()
DeleteManyScan ==
    /\ Idle
    /\ \E i \in DOMAIN threads :
          /\ threads[i].pc = "locked"
          /\ threads[i].call.op = "delete_many"
          /\ LET c == threads[i].call
                 db == Deref(threads[i].database)
                 g == Database_get_table(db, c.table)
             IN  IF IsOk(g.res)
                 THEN /\ \E order \in IterOrders(DOMAIN g.table.entries) :
                            threads' = [threads EXCEPT
                                           ![i].pc = "items",
                                           ![i].call.korder = order,
                                           ![i].todo = Table_scan(g.table, order)]
                      /\ UNCHANGED <<database, last, file, workers, lock>>
                 ELSE Unlock(i, c, Outcome(c, db, file))
    /\ UNCHANGED <<now, handles, stop, building>>

\* one turn of the loop of delete_many, or its end
DeleteManyItem ==
    /\ Idle
    /\ \E i \in DOMAIN threads :
          /\ threads[i].pc = "items"
          /\ LET c == threads[i].call
                 db == Deref(threads[i].database)
                 same == Outcome(NoCall, db, file)
             IN  IF threads[i].todo = <<>>
                 THEN Unlock(i, c, [same EXCEPT !.deleted = c.deleted])
                 ELSE LET item == Head(threads[i].todo)
                          d == Table_delete(Database_get_table(db, c.table).table,
                                            item.primary_field)
                          written == IF c.table \in DOMAIN db.tables
                                     THEN [db EXCEPT !.tables[c.table] = d.table] ELSE db
                      IN  IF ~MeetsCriteria(item, c.criteria)
                          THEN /\ threads' = [threads EXCEPT ![i].todo = Tail(@)]
                               /\ UNCHANGED <<database, last, file, workers, lock>>
                          ELSE IF IsOk(d.res)
                          THEN /\ Store(i, written,
                                        [threads EXCEPT ![i].todo = Tail(@),
                                                        ![i].call.deleted = @ + 1])
                               /\ UNCHANGED <<last, file, workers, lock>>
                          ELSE Unlock(i, c, [same EXCEPT !.res = d.res, !.database = written,
                                                         !.deleted = c.deleted])
    /\ UNCHANGED <<now, handles, stop, building>>

\* prune up to its loop: SystemTime::now() and database.list_tables()
PruneStart ==
    /\ Idle
    /\ \E i \in DOMAIN threads :
          /\ threads[i].pc = "locked"
          /\ threads[i].call.op = "prune"
          /\ LET db == Deref(threads[i].database) IN
             \E tnames \in IterOrders(DOMAIN db.tables) :
             \E korder \in IterOrders(UNION {DOMAIN db.tables[t].entries :
                                                t \in DOMAIN db.tables}) :
                /\ threads' = [threads EXCEPT ![i].pc = "tables",
                                              ![i].call.time = now,
                                              ![i].call.tnames = tnames,
                                              ![i].call.korder = korder,
                                              ![i].todo = tnames]
    /\ UNCHANGED <<database, now, last, file, handles, workers, stop, lock, building>>

\* one table of the loop of prune, or its end
PruneTable ==
    /\ Idle
    /\ \E i \in DOMAIN threads :
          /\ threads[i].pc = "tables"
          /\ LET c == threads[i].call
                 db == Deref(threads[i].database)
                 same == Outcome(NoCall, db, file)
             IN  IF threads[i].todo = <<>>
                 THEN Unlock(i, c, same)
                 ELSE LET r == PruneTablesLoop(db, <<Head(threads[i].todo)>>,
                                               c.korder, c.time)
                      IN  IF IsOk(r.res)
                          THEN /\ Store(i, r.database, [threads EXCEPT ![i].todo = Tail(@)])
                               /\ UNCHANGED <<last, file, workers, lock>>
                          ELSE Unlock(i, c, [same EXCEPT !.res = r.res,
                                                         !.database = r.database])
    /\ UNCHANGED <<now, handles, stop, building>>

\* a panic inside the lock: the bodies call the tracing macros, and a
\* subscriber that panics unwinds the thread through the guard.  The thread
\* is gone and its Client with it; a caller that panics is not the last one
\* to hold a Client, so no Saver is dropped.
Panic ==
    /\ Idle
    /\ \E i \in DOMAIN threads :
          /\ threads[i].pc \in {"locked", "items", "tables"}
          /\ i # 0 => handles > 1
          /\ lock' = Mutex_poison(lock)
          /\ threads' = MapRemove(threads, i)
          /\ handles' = IF i = 0 THEN handles ELSE handles - 1
          /\ workers' = IF i = 0 THEN [workers EXCEPT ![1].pc = "panicked"] ELSE workers
    /\ UNCHANGED <<database, now, last, file, stop, building>>

\* a caller clones its Client for another thread
CloneHandle ==
    /\ Idle
    /\ handles < MaxHandles
    /\ \E i \in DOMAIN threads \ {0} :
          /\ threads[i].pc = "idle"
          /\ LET j == CHOOSE x \in 1..MaxHandles :
                         /\ x \notin DOMAIN threads
                         /\ \A y \in 1..(x - 1) : y \in DOMAIN threads
                 arc == threads[i].database
             IN  threads' = MapInsert(threads, j, Thread(Arc_clone(arc, Deref(arc))))
          /\ handles' = Client_clone(handles, workers).handles
    /\ UNCHANGED <<database, now, last, file, workers, stop, lock, building>>

\* Client::new(path, Some(1)) has returned: the worker holds its clone
SharedInit ==
    LET r == Client_new(None, Some(1), <<>>, <<>>, <<>>) IN
    /\ database = r.database
    /\ now = 0
    /\ last = NoCall
    /\ file = r.file
    /\ handles = 1
    /\ workers = r.spawned
    /\ stop = "open"
    /\ lock = Mutex_new
    /\ threads = MapInsert(MapInsert(EmptyMap, 1, Thread(Arc_new)),
                           0, Thread(Arc_clone(Arc_new, r.database)))
    /\ tbuilder = NoTableBuilder
    /\ ebuilder = NoEntryBuilder

SharedNext ==
    \/ ClientCall
    \/ WorkerCall
    \/ Body
    \/ DeleteManyScan
    \/ DeleteManyItem
    \/ PruneStart
    \/ PruneTable
    \/ Panic
    \/ CloneHandle
    \/ WorkerTryRecv
    \/ WorkerSleep
    \/ Return
    \/ Tick

SpecShared == SharedInit /\ [][SharedNext]_vars

(* ------------------------------------------------------------------ *)
(* Writes of records as callers can build them, valid or not, with the  *)
(* registry also called on its own, and the store saved and reopened    *)
(* ------------------------------------------------------------------ *)

\* Database::create_table called on the registry itself
DatabaseCreateTable ==
    /\ Ready
    /\ \E t \in StoreTables :
          LET r == Database_create_table(database, t) IN
          /\ database' = r.database
          /\ last' = [Call("Database::create_table", t.name) EXCEPT
                         !.new_table = t, !.res = r.res]
    /\ UNCHANGED <<now, lifecycle>>

WritesNext ==
    \/ CreateTableFrom(StoreTables)
    \/ DatabaseCreateTable
    \/ InsertFrom(StoreNames, WriteEntries)
    \/ InsertOrUpdateFrom(StoreNames, WriteEntries)
    \/ UpdateFrom(StoreNames, WriteEntries)
    \/ Prune
    \/ Save
    \/ Drop
    \/ Open
    \/ Return
    \/ Tick

SpecWrites == Init /\ [][WritesNext]_vars

(* ------------------------------------------------------------------ *)
(* The store and its worker under a fair scheduler: a thread that can   *)
(* take its next step takes it in the end, and time passes.  Prune and  *)
(* save of the worker succeed here.                                     *)
(* ------------------------------------------------------------------ *)

TeardownNext ==
    \/ New
    \/ Clone
    \/ Drop
    \/ DropSend
    \/ DropJoin
    \/ WorkerTryRecv
    \/ WorkerSleep
    \/ WorkerPrune
    \/ WorkerSave
    \/ CreateTableFrom(StoreTables)
    \/ InsertFrom(StoreNames, StoreEntries)
    \/ Return
    \/ Tick

\* the worker stands before its save: WorkerSave can be taken
SaveDue == Idle /\ \E i \in 1..Len(workers) : workers[i].pc = "save"

\* the worker thread and the thread blocked in Saver::drop are scheduled, and
\* the clock goes on.  The weak fairness of WorkerSave is written out, SaveDue
\* being what enables it.
Scheduling ==
    /\ WF_vars(WorkerTryRecv)
    /\ WF_vars(WorkerSleep)
    /\ WF_vars(WorkerPrune)
    /\ ([]<>(~SaveDue) \/ []<><<WorkerSave>>_vars)
    /\ WF_vars(DropJoin)
    /\ WF_vars(Tick)

SpecTeardown == StoreInit /\ [][TeardownNext]_vars /\ Scheduling

(* ------------------------------------------------------------------ *)
(* The store when things go wrong: the directory of the path is taken   *)
(* away, so that a save fails; the process stops inside a save; and     *)
(* another thread calls Client::new on the same path.  Client::new is   *)
(* taken in its steps: the look at the path with the spawn of the       *)
(* worker, the save, and, when the save failed, the drop of the Client. *)
(* Thread 1 is the caller of the store the variables describe, thread 2 *)
(* the other caller of Client::new, whose Client has no worker.         *)
(* ------------------------------------------------------------------ *)

\* what the store holds when a fault strikes: nothing, or one table
FaultTables == {BuiltTable(n, "String", "required", "none", None) : n \in StoreNames}

FaultsInit ==
    /\ database = Database_default
    /\ now = 0
    /\ last = NoCall
    /\ file = None
    /\ handles = 0
    /\ workers = <<>>
    /\ stop = "open"
    /\ lock = Mutex_new
    /\ threads = MapInsert(MapInsert(EmptyMap, 1, Thread(Arc_new)), 2, Thread(Arc_new))
    /\ tbuilder = NoTableBuilder
    /\ ebuilder = NoEntryBuilder

\* no thread is inside Client::new
NoneInNew == \A i \in DOMAIN threads : threads[i].pc = "idle"

\* Client::new up to its save: path.exists(), Database::default(), the spawn
NewCheck ==
    /\ Idle
    /\ \E i \in DOMAIN threads :
       \E sync_interval \in IF i = 1 THEN SyncIntervals ELSE {None} :
          /\ threads[i].pc = "idle"
          /\ i = 1 => (handles = 0 /\ stop = "open")
          /\ LET c == [Call("new", "") EXCEPT !.client = i, !.sync_interval = sync_interval]
                 r == Client_new(None, sync_interval, <<>>, <<>>, <<>>)
             IN  IF file.some
                 THEN /\ last' = [c EXCEPT !.res = Err("DatabaseExistsError")]
                      /\ UNCHANGED <<database, workers, threads>>
                 ELSE /\ threads' = [threads EXCEPT ![i].pc = "save", ![i].call = c]
                      /\ database' = IF i = 1 THEN r.database ELSE database
                      /\ workers' = IF i = 1 THEN r.spawned ELSE workers
                      /\ UNCHANGED last
    /\ UNCHANGED <<now, file, handles, stop, lock, building>>

\* client.save()? of Client::new, and on its error the drop of the Client:
\* with a Saver in it, Saver::drop blocks in killer.send
NewSave ==
    /\ Idle
    /\ \E i \in DOMAIN threads :
          /\ threads[i].pc = "save"
          /\ LET c == threads[i].call
                 r == Client_save_at(file, IF i = 1 THEN database ELSE Database_default,
                                     <<>>, <<>>, <<>>)
                 idle == [threads EXCEPT ![i].pc = "idle", ![i].call = NoCall]
             IN  IF IsOk(r.res)
                 THEN /\ file' = r.file
                      /\ last' = [c EXCEPT !.res = r.res]
                      /\ threads' = idle
                      /\ handles' = IF i = 1 THEN 1 ELSE handles
                      /\ UNCHANGED <<database, stop>>
                 ELSE IF i = 1 /\ workers # <<>>
                 THEN /\ threads' = [threads EXCEPT ![i].pc = "dropping"]
                      /\ stop' = "sending"
                      /\ UNCHANGED <<database, last, file, handles>>
                 ELSE /\ last' = [c EXCEPT !.res = r.res]
                      /\ threads' = idle
                      /\ database' = IF i = 1 THEN Database_default ELSE database
                      /\ UNCHANGED <<file, handles, stop>>
    /\ UNCHANGED <<now, workers, lock, building>>

\* the drop inside Client::new: the worker took the message and ended, join
\* returns, and Client::new returns the error of its save
NewDropJoin ==
    /\ Idle
    /\ threads[1].pc = "dropping"
    /\ stop = "received"
    /\ \A i \in 1..Len(workers) : workers[i].pc = "ended"
    /\ last' = [threads[1].call EXCEPT !.res = Err("DatabaseIoError")]
    /\ threads' = [threads EXCEPT ![1].pc = "idle", ![1].call = NoCall]
    /\ database' = Database_default
    /\ workers' = <<>>
    /\ stop' = "open"
    /\ UNCHANGED <<now, file, handles, lock, building>>

\* the drop inside Client::new when the worker has panicked: its Receiver is
\* gone, killer.send returns Err and the unwrap panics
NewDropPanic ==
    /\ Idle
    /\ threads[1].pc = "dropping"
    /\ \E i \in 1..Len(workers) : workers[i].pc = "panicked"
    /\ last' = [threads[1].call EXCEPT !.res = Panicked]
    /\ threads' = [threads EXCEPT ![1].pc = "idle", ![1].call = NoCall]
    /\ database' = Database_default
    /\ workers' = <<>>
    /\ stop' = "open"
    /\ UNCHANGED <<now, file, handles, lock, building>>

\* c.save().unwrap() of the worker on what the path holds
WorkerSaveAt ==
    /\ Idle
    /\ \E i \in 1..Len(workers) :
          /\ workers[i].pc = "save"
          /\ \E tnames \in IterOrders(DOMAIN database.tables) :
             \E forder \in FieldNameOrders, korder \in PrimaryKeyOrders :
                LET r == Client_save_at(file, database, tnames, forder, korder) IN
                /\ file' = r.file
                /\ workers' = [workers EXCEPT
                                  ![i].pc = IF IsOk(r.res) THEN "try_recv" ELSE "panicked"]
    /\ UNCHANGED <<database, now, last, handles, stop, sharing, building>>

\* Client::save called through a handle on what the path holds
SaveAt ==
    /\ Ready
    /\ \E tnames \in IterOrders(DOMAIN database.tables) :
       \E forder \in FieldNameOrders, korder \in PrimaryKeyOrders :
          LET r == Client_save_at(file, database, tnames, forder, korder) IN
          /\ file' = r.file
          /\ last' = [Call("save", "") EXCEPT !.res = r.res]
    /\ UNCHANGED <<database, now, handles, workers, stop, sharing, building>>

\* Saver::drop of the last Client when the worker has panicked: killer.send
\* returns Err and the unwrap panics in the drop
DropPanic ==
    /\ Idle
    /\ stop = "sending"
    /\ handles = 1
    /\ threads[1].pc = "idle"
    /\ \E i \in 1..Len(workers) : workers[i].pc = "panicked"
    /\ last' = [Call("drop", "") EXCEPT !.res = Panicked]
    /\ handles' = 0
    /\ database' = Database_default
    /\ workers' = <<>>
    /\ stop' = "open"
    /\ UNCHANGED <<now, file, sharing, building>>

\* the directory of the path is removed, the file with it
RemoveDirectory ==
    /\ Idle
    /\ file # NoDirectory
    /\ file' = NoDirectory
    /\ UNCHANGED <<database, now, last, handles, workers, stop, sharing, building>>

\* the directory is there again, empty
RestoreDirectory ==
    /\ Idle
    /\ file = NoDirectory
    /\ file' = None
    /\ UNCHANGED <<database, now, last, handles, workers, stop, sharing, building>>

\* a save that renames a finished temporary file over the path
SaveCrash_renaming ==
    /\ Ready
    /\ NoneInNew
    /\ IsOk(OpenOptions_open(file))
    /\ last' = Call("crash", "")
    /\ handles' = 0
    /\ database' = Database_default
    /\ workers' = <<>>
    /\ UNCHANGED <<now, file, stop, sharing, building>>

\* the process stops inside a save, of a caller or of the worker, after the
\* open has truncated the file and before write_all is through
SaveCrash ==
    /\ Ready
    /\ NoneInNew
    /\ IsOk(OpenOptions_open(file))
    /\ \E tnames \in IterOrders(DOMAIN database.tables) :
       \E forder \in FieldNameOrders, korder \in PrimaryKeyOrders :
       \E cut \in Truncations(Client_save(database, tnames, forder, korder).file.v) :
          file' = Some(cut)
    /\ last' = Call("crash", "")
    /\ handles' = 0
    /\ database' = Database_default
    /\ workers' = <<>>
    /\ UNCHANGED <<now, stop, sharing, building>>

\* Client::open by a process that finds the path as it was left
Reopen ==
    /\ NoneInNew
    /\ Open

FaultsNext ==
    \/ NewCheck
    \/ NewSave
    \/ NewDropJoin
    \/ NewDropPanic
    \/ Reopen
    \/ SaveAt
    \/ SaveCrash
    \/ Drop
    \/ DropSend
    \/ DropJoin
    \/ DropPanic
    \/ WorkerTryRecv
    \/ WorkerSleep
    \/ WorkerPrune
    \/ WorkerSaveAt
    \/ RemoveDirectory
    \/ RestoreDirectory
    \/ CreateTableFrom(FaultTables)
    \/ Return
    \/ Tick

SpecFaults == FaultsInit /\ [][FaultsNext]_vars

(* ------------------------------------------------------------------ *)
(* Vocabulary of the properties                                         *)
(* ------------------------------------------------------------------ *)

Writes == {"insert", "update", "insert_or_update"}

\* the last call named a table that was registered when the call began
OnTable == last.table \in DOMAIN last.pre.tables

PreTable == last.pre.tables[last.table]

\* field names the entry carries and the schema does not declare
Undeclared(table, entry) == {k \in DOMAIN entry.fields : k \notin DOMAIN table.fields}

\* Required schema fields the entry omits
MissingRequired(table, entry) ==
    {f \in DOMAIN table.fields :
        table.fields[f].requirement = "Required" /\ f \notin DOMAIN entry.fields}

\* the primary key, or a declared field the entry carries, has another type
\* than the schema declares
WrongType(table, entry) ==
    \/ get_type(entry.primary_field) # table.primary_field
    \/ \E k \in (DOMAIN entry.fields) \cap (DOMAIN table.fields) :
          get_type(entry.fields[k]) # table.fields[k].type

Conforms(table, entry) ==
    /\ ~WrongType(table, entry)
    /\ Undeclared(table, entry) = {}
    /\ MissingRequired(table, entry) = {}

Stored(db, table, key) ==
    table \in DOMAIN db.tables /\ key \in DOMAIN db.tables[table].entries

Range(f) == {f[x] : x \in DOMAIN f}

(* ------------------------------------------------------------------ *)
(* Properties                                                           *)
(* ------------------------------------------------------------------ *)

\* C1: an insert of a record that conforms to the table's schema and whose
\* primary key is not stored returns Ok, and a get on that key in the state
\* the insert leaves returns a record with the same primary key and exactly
\* the same fields, whose last_timestamp is set and not earlier than the
\* clock at the start of the insert.
C1_InsertThenGet ==
    (/\ last.op = "insert"
     /\ OnTable
     /\ Conforms(PreTable, last.entry)
     /\ ~Stored(last.pre, last.table, last.entry.primary_field))
    => /\ last.res = Ok
       /\ LET g == Client_get(database, last.table, last.entry.primary_field) IN
          /\ g.res = Ok
          /\ g.entry.primary_field = last.entry.primary_field
          /\ g.entry.fields = last.entry.fields
          /\ g.entry.last_timestamp.some
          /\ g.entry.last_timestamp.v >= last.start

\* an insert of a record carrying an Optional field succeeded at a moment
\* when the clock had already advanced
C1_Witness ==
    /\ last.op = "insert"
    /\ last.res = Ok
    /\ last.start >= 1
    /\ "OptionalKey" \in DOMAIN last.entry.fields
    /\ Stored(database, last.table, last.entry.primary_field)

\* C2: an insert of a schema-valid record whose primary key is already stored
\* returns EntryExists and leaves the database, and so the stored record with
\* its fields and its last_timestamp, as it was.
C2_SecondInsertRejected ==
    (/\ last.op = "insert"
     /\ OnTable
     /\ Conforms(PreTable, last.entry)
     /\ Stored(last.pre, last.table, last.entry.primary_field))
    => /\ last.res = Err("EntryExists")
       /\ database = last.pre

\* a second insert under a stored key brought other fields, later than the
\* first write
C2_Witness ==
    /\ last.op = "insert"
    /\ last.res = Err("EntryExists")
    /\ Stored(last.pre, last.table, last.entry.primary_field)
    /\ PreTable.entries[last.entry.primary_field].fields # last.entry.fields
    /\ PreTable.entries[last.entry.primary_field].last_timestamp.v < now

C4_StoredConform ==
    \A t \in DOMAIN database.tables :
       \A k \in DOMAIN database.tables[t].entries :
          /\ database.tables[t].entries[k].primary_field = k
          /\ Conforms(database.tables[t], database.tables[t].entries[k])

\* a table with a Required and an Optional field holds two records, after a
\* write to it was rejected
C4_Witness ==
    /\ last.op \in Writes
    /\ last.res.tag = "Err"
    /\ \E t \in DOMAIN database.tables :
          /\ Cardinality(DOMAIN database.tables[t].entries) = 2
          /\ \E f, g \in DOMAIN database.tables[t].fields :
                /\ database.tables[t].fields[f].requirement = "Required"
                /\ database.tables[t].fields[g].requirement = "Optional"

\* C5: on insert, update and insert_or_update the type checks come first: a
\* record whose primary key has the wrong type, or that has a declared field
\* of the wrong type, is rejected with MismatchedFieldType whatever else is
\* wrong with it, in particular when it also omits a Required field.
C5_TypeChecksFirst ==
    (last.op \in Writes /\ OnTable /\ WrongType(PreTable, last.entry))
    => last.res = Err("MismatchedFieldType")

\* a record with a correctly typed primary key, a declared field of the wrong
\* type and a Required field omitted was rejected
C5_Witness ==
    /\ last.op \in Writes
    /\ OnTable
    /\ get_type(last.entry.primary_field) = PreTable.primary_field
    /\ WrongType(PreTable, last.entry)
    /\ MissingRequired(PreTable, last.entry) # {}
    /\ last.res = Err("MismatchedFieldType")

\* C6, as stated: a write of a record that carries an undeclared field name
\* fails with UnsupportedField naming such a field, whatever the record's
\* other fields are, also when a declared field has a value of the wrong type
\* (stated for records whose primary key has the declared type).
C6_UnsupportedAlways ==
    (/\ last.op \in Writes
     /\ OnTable
     /\ get_type(last.entry.primary_field) = PreTable.primary_field
     /\ Undeclared(PreTable, last.entry) # {})
    => /\ last.res.err = "UnsupportedField"
       /\ last.res.name \in Undeclared(PreTable, last.entry)

\* C6, amended: a write of a record that carries an undeclared field name and
\* whose primary key and declared fields all have the declared types fails
\* with UnsupportedField naming an undeclared field, also when a Required
\* field is missing; with a wrongly typed primary key or declared field it
\* fails with MismatchedFieldType instead.
C6_UnsupportedUnlessWrongType ==
    (last.op \in Writes /\ OnTable /\ Undeclared(PreTable, last.entry) # {})
    => IF WrongType(PreTable, last.entry)
       THEN last.res = Err("MismatchedFieldType")
       ELSE /\ last.res.err = "UnsupportedField"
            /\ last.res.name \in Undeclared(PreTable, last.entry)

\* a correctly typed record with an undeclared field and a Required field
\* omitted was rejected with UnsupportedField
C6_Witness ==
    /\ last.op \in Writes
    /\ OnTable
    /\ ~WrongType(PreTable, last.entry)
    /\ MissingRequired(PreTable, last.entry) # {}
    /\ last.res.err = "UnsupportedField"
    /\ last.res.name \in Undeclared(PreTable, last.entry)

C8_TableDoesNotExist ==
    (/\ last.op \in Writes \cup {"get", "delete", "delete_many", "scan", "query"}
     /\ ~OnTable)
    => /\ last.res = ErrNamed("TableDoesNotExist", last.table)
       /\ database = last.pre

\* a record with an undeclared field and a wrongly typed one was sent to a
\* missing table while another table held a record
C8_Witness ==
    /\ last.op = "insert"
    /\ ~OnTable
    /\ last.res.err = "TableDoesNotExist"
    /\ "ExtraField" \in DOMAIN last.entry.fields
    /\ "FirstKey" \in DOMAIN last.entry.fields
    /\ get_type(last.entry.fields["FirstKey"]) = "String"
    /\ \E t \in DOMAIN database.tables : DOMAIN database.tables[t].entries # {}

\* C9: get and delete on a primary key that is not stored in an existing
\* table return EntryDoesNotExists and change nothing; delete on a stored key
\* returns Ok and removes exactly that record: get on the key then returns
\* EntryDoesNotExists and nothing else in the database differs.
C9_GetDeleteByKey ==
    (last.op \in {"get", "delete"} /\ OnTable)
    => IF ~Stored(last.pre, last.table, last.key)
       THEN /\ last.res = Err("EntryDoesNotExists")
            /\ database = last.pre
       ELSE /\ last.res = Ok
            /\ last.op = "get" => /\ database = last.pre
                                  /\ last.out_entry = PreTable.entries[last.key]
            /\ last.op = "delete" =>
                  /\ Client_get(database, last.table, last.key).res = Err("EntryDoesNotExists")
                  /\ DOMAIN database.tables = DOMAIN last.pre.tables
                  /\ \A t \in DOMAIN database.tables :
                        /\ [database.tables[t] EXCEPT !.entries = EmptyMap]
                              = [last.pre.tables[t] EXCEPT !.entries = EmptyMap]
                        /\ DOMAIN database.tables[t].entries
                              = (DOMAIN last.pre.tables[t].entries)
                                   \ (IF t = last.table THEN {last.key} ELSE {})
                        /\ \A k \in DOMAIN database.tables[t].entries :
                              database.tables[t].entries[k] = last.pre.tables[t].entries[k]
                  /\ database.sync_interval = last.pre.sync_interval

\* a delete removed one of two stored records
C9_Witness ==
    /\ last.op = "delete"
    /\ last.res = Ok
    /\ OnTable
    /\ Cardinality(DOMAIN PreTable.entries) = 2
    /\ Cardinality(DOMAIN database.tables[last.table].entries) = 1

\* C10: query on an existing table returns exactly the stored records whose
\* fields map holds, for every (k, v) of the criteria, the key k with the value
\* v, each once: several keys act as a logical AND, the empty criteria
\* return every record, and a record lacking a criteria key is not returned.
C10_QueryExact ==
    (last.op = "query" /\ OnTable)
    => LET matching ==
               {e \in Range(database.tables[last.table].entries) :
                   \A k \in DOMAIN last.criteria :
                      k \in DOMAIN e.fields /\ e.fields[k] = last.criteria[k]}
       IN  /\ last.res = Ok
           /\ Range(last.items) = matching
           /\ Len(last.items) = Cardinality(matching)
           /\ (last.criteria = EmptyMap
                  => Len(last.items) = Cardinality(DOMAIN database.tables[last.table].entries))

\* a query with two criteria keys returned one of two stored records, the
\* other one lacking a criteria key
C10_Witness ==
    /\ last.op = "query"
    /\ OnTable
    /\ Cardinality(DOMAIN last.criteria) = 2
    /\ Cardinality(DOMAIN database.tables[last.table].entries) = 2
    /\ Len(last.items) = 1
    /\ \E e \in Range(database.tables[last.table].entries) :
          (DOMAIN last.criteria) \ (DOMAIN e.fields) # {}

\* C11: delete_many on an existing table returns Ok with the number of records
\* it removed; the records removed are exactly those a query with the same
\* criteria returns in the state the call began in, every other record, the
\* schema and every other table are as before, and a query with the same
\* criteria in the state the call leaves returns no record.
C11_DeleteManyExact ==
    (last.op = "delete_many" /\ OnTable)
    => LET post == database.tables[last.table]
           queried(db) ==
               UNION {{i.primary_field :
                          i \in Range(Client_query(db, last.table, last.criteria, order).items)} :
                      order \in IterOrders(DOMAIN db.tables[last.table].entries)}
           matching == queried(last.pre)
       IN  /\ last.res = Ok
           /\ DOMAIN database.tables = DOMAIN last.pre.tables
           /\ DOMAIN post.entries = (DOMAIN PreTable.entries) \ matching
           /\ \A k \in DOMAIN post.entries : post.entries[k] = PreTable.entries[k]
           /\ last.deleted = Cardinality(matching)
           /\ database = [last.pre EXCEPT !.tables[last.table].entries = post.entries]
           /\ queried(database) = {}

\* a delete_many with criteria removed one of two stored records
C11_Witness ==
    /\ last.op = "delete_many"
    /\ OnTable
    /\ last.criteria # EmptyMap
    /\ Cardinality(DOMAIN PreTable.entries) = 2
    /\ last.deleted = 1
    /\ Cardinality(DOMAIN database.tables[last.table].entries) = 1

\* C12: create_table with a name that is registered returns TableExists with
\* that name and leaves the database as it was (the table under that name, its
\* schema and its records included); with a name that is not registered it
\* returns Ok and registers the table given, which holds no record, leaving
\* every other table as it was.
C12_CreateTable ==
    (last.op = "create_table")
    => IF last.table \in DOMAIN last.pre.tables
       THEN /\ last.res = ErrNamed("TableExists", last.table)
            /\ database = last.pre
       ELSE /\ last.res = Ok
            /\ DOMAIN database.tables = (DOMAIN last.pre.tables) \cup {last.table}
            /\ database.tables[last.table] = last.new_table
            /\ database.tables[last.table].entries = EmptyMap
            /\ \A t \in DOMAIN last.pre.tables : database.tables[t] = last.pre.tables[t]
            /\ database.sync_interval = last.pre.sync_interval

\* a create_table was refused on a name whose table holds a record and has
\* another schema than the table given
C12_Witness ==
    /\ last.op = "create_table"
    /\ last.res = ErrNamed("TableExists", last.table)
    /\ OnTable
    /\ PreTable.entries # EmptyMap
    /\ PreTable.fields # last.new_table.fields

\* C13: the registered names change only by create_table, which adds the name
\* of a table it accepts (a table with no record), and by drop_table, which
\* removes a registered name together with its table and records; drop_table
\* of an unregistered name returns TableDoesNotExist and leaves the database
\* as it was; list_tables returns the registered names, each once.
C13_Registry ==
    (last.op # "none")
    => /\ DOMAIN database.tables =
             CASE last.op = "create_table" -> (DOMAIN last.pre.tables) \cup {last.table}
               [] last.op = "drop_table" -> (DOMAIN last.pre.tables) \ {last.table}
               [] OTHER -> DOMAIN last.pre.tables
       /\ (last.op = "create_table" /\ ~OnTable)
              => database.tables[last.table].entries = EmptyMap
       /\ (last.op = "drop_table" /\ OnTable)
              => /\ last.res = Ok
                 /\ database = [last.pre EXCEPT !.tables = MapRemove(last.pre.tables, last.table)]
       /\ (last.op = "drop_table" /\ ~OnTable)
              => /\ last.res = ErrNamed("TableDoesNotExist", last.table)
                 /\ database = last.pre
       /\ (last.op = "list_tables")
              => /\ last.res = Ok
                 /\ Range(last.names) = DOMAIN database.tables
                 /\ Len(last.names) = Cardinality(DOMAIN database.tables)

\* a drop_table removed one of two registered tables, the one removed holding
\* a record
C13_Witness ==
    /\ last.op = "drop_table"
    /\ last.res = Ok
    /\ Cardinality(DOMAIN last.pre.tables) = 2
    /\ PreTable.entries # EmptyMap
    /\ Cardinality(DOMAIN database.tables) = 1

\* the record was last touched more than d before time
Expired(e, d, time) == e.last_timestamp.some /\ time - e.last_timestamp.v > d

\* C19: prune, reading the clock as now, returns Ok and removes from every
\* table that has expire_after exactly the records with now - last_timestamp
\* greater than expire_after: every other record of those tables (one exactly
\* expire_after old included) and their schema are as before, and every table
\* without expire_after is as before.
C19_PruneExact ==
    (last.op = "prune")
    => /\ last.res = Ok
       /\ DOMAIN database.tables = DOMAIN last.pre.tables
       /\ database.sync_interval = last.pre.sync_interval
       /\ \A t \in DOMAIN last.pre.tables :
             LET pre == last.pre.tables[t]
                 post == database.tables[t]
             IN  IF pre.expire_after.some
                 THEN /\ DOMAIN post.entries =
                            {k \in DOMAIN pre.entries :
                                ~Expired(pre.entries[k], pre.expire_after.v, now)}
                      /\ \A k \in DOMAIN post.entries : post.entries[k] = pre.entries[k]
                      /\ post = [pre EXCEPT !.entries = post.entries]
                 ELSE post = pre

\* a prune removed a record of a table with expire_after and kept one exactly
\* expire_after old, while a table without expire_after holds a record as old
\* as the one removed
C19_Witness ==
    /\ last.op = "prune"
    /\ \E t, u \in DOMAIN last.pre.tables :
          /\ last.pre.tables[t].expire_after.some
          /\ \E k \in DOMAIN last.pre.tables[t].entries :
                k \notin DOMAIN database.tables[t].entries
          /\ \E k \in DOMAIN database.tables[t].entries :
                now - database.tables[t].entries[k].last_timestamp.v
                    = last.pre.tables[t].expire_after.v
          /\ ~last.pre.tables[u].expire_after.some
          /\ \E k \in DOMAIN database.tables[u].entries :
                Expired(database.tables[u].entries[k], 1, now)

\* the primary keys scan returns on the table, over every iteration order
Scanned(db, table) ==
    UNION {{i.primary_field : i \in Range(Client_scan(db, table, order).items)} :
           order \in IterOrders(DOMAIN db.tables[table].entries)}

\* the last call deleted the record, or dropped its table
Removed(table, key) ==
    \/ last.op = "drop_table" /\ last.table = table
    \/ last.op = "delete" /\ last.table = table /\ last.key = key

\* C20, as stated: a scan on a table with expire_after returns no record
\* last touched more than expire_after ago, and a record not that old that the
\* last call neither deleted nor dropped with its table is returned by scan.
C20_AbsentOnceExpired ==
    /\ (last.op = "scan" /\ OnTable /\ PreTable.expire_after.some)
          => \A i \in 1..Len(last.items) :
                ~Expired(last.items[i], PreTable.expire_after.v, now)
    /\ (last.op # "none")
          => \A t \in DOMAIN last.pre.tables : \A k \in DOMAIN last.pre.tables[t].entries :
                (/\ last.pre.tables[t].expire_after.some
                 /\ ~Expired(last.pre.tables[t].entries[k],
                             last.pre.tables[t].expire_after.v, now)
                 /\ ~Removed(t, k))
                => k \in Scanned(database, t)

\* C20: in the state a prune leaves, reading the clock as now, scan on a
\* table with expire_after returns no record last touched more than
\* expire_after before now; and a record stays in scan over every call that
\* neither deletes it nor drops its table, except a prune reading a time more
\* than expire_after after the record was last touched: so it is in scan at
\* every time up to last_timestamp + expire_after, and later until a prune.
C20_AbsentOncePruned ==
    /\ (last.op = "prune")
          => \A t \in DOMAIN database.tables :
                database.tables[t].expire_after.some
                => \A k \in Scanned(database, t) :
                      ~Expired(database.tables[t].entries[k],
                               database.tables[t].expire_after.v, now)
    /\ (last.op # "none")
          => \A t \in DOMAIN last.pre.tables : \A k \in DOMAIN last.pre.tables[t].entries :
                \/ Removed(t, k)
                \/ /\ last.op = "prune"
                   /\ last.pre.tables[t].expire_after.some
                   /\ Expired(last.pre.tables[t].entries[k],
                              last.pre.tables[t].expire_after.v, now)
                \/ k \in Scanned(database, t)

\* a prune took the record last touched more than expire_after ago out of
\* scan and left in scan the one touched later
C20_Witness ==
    /\ last.op = "prune"
    /\ \E t \in DOMAIN last.pre.tables :
          /\ last.pre.tables[t].expire_after.some
          /\ Cardinality(Scanned(last.pre, t)) = 2
          /\ Cardinality(Scanned(database, t)) = 1
          /\ \E k \in Scanned(last.pre, t) \ Scanned(database, t) :
                Expired(last.pre.tables[t].entries[k], last.pre.tables[t].expire_after.v, now)

\* C14: in the state a save leaves, Client::open of the file succeeds and
\* reads a database equal to the one in memory: the same sync_interval, the
\* same table names, and for each table the same name, primary key type,
\* declared fields, expire_after and entries, each entry with its fields and
\* last_timestamp; whatever order the maps were iterated in.
C14_SaveOpenRoundTrip ==
    (last.op = "save" /\ IsOk(last.res))
    => LET reopened == Client_open(file)
           read == reopened.database
       IN  /\ file.some
           /\ IsOk(reopened.res)
           /\ read.sync_interval = database.sync_interval
           /\ DOMAIN read.tables = DOMAIN database.tables
           /\ \A t \in DOMAIN database.tables :
                 /\ read.tables[t].name = database.tables[t].name
                 /\ read.tables[t].primary_field = database.tables[t].primary_field
                 /\ read.tables[t].fields = database.tables[t].fields
                 /\ read.tables[t].expire_after = database.tables[t].expire_after
                 /\ read.tables[t].entries = database.tables[t].entries
           /\ read = database

\* a store with a sync interval was saved holding a table with expire_after
\* and a record of two fields touched after time 0
C14_Witness ==
    /\ last.op = "save"
    /\ IsOk(last.res)
    /\ database.sync_interval.some
    /\ \E t \in DOMAIN database.tables :
          /\ database.tables[t].expire_after.some
          /\ \E k \in DOMAIN database.tables[t].entries :
                /\ Cardinality(DOMAIN database.tables[t].entries[k].fields) = 2
                /\ database.tables[t].entries[k].last_timestamp.v > 0

\* C15: a step that takes a Client away leaves the file as it is; a step that
\* changes the file is a save of a store that stays open, and the file it
\* leaves reads back as the database in memory at that moment; and a step that
\* opens the path gives the database the file reads back as.  So the database
\* open returns is the one in memory at the last completed save, of the caller
\* or of the worker, and no mutation made after it.
C15_DropDoesNotSave ==
    [][/\ (handles' < handles) => (file' = file)
       /\ (file' # file)
             => /\ handles' > 0
                /\ IsOk(Client_open(file').res)
                /\ Client_open(file').database = database'
       /\ (handles = 0 /\ handles' > 0 /\ file.some)
             => /\ file' = file
                /\ database' = Client_open(file).database]_vars

\* the last Client of a store was dropped with a mutation made after the last
\* save: the file reads back as another database than the one dropped
C15_Witness ==
    /\ last.op = "drop"
    /\ handles = 0
    /\ file.some
    /\ DOMAIN last.pre.tables # {}
    /\ Client_open(file).database # last.pre

\* C16: Client::new on a path that holds a file returns DatabaseExistsError
\* and leaves the file, the workers, the Clients held and the database in
\* memory as they were; on a path that holds no file it returns Ok and leaves
\* a file that Client::open reads as a database with no table and the
\* sync_interval given.
C16_NewOnExistingPath ==
    (last.op = "new")
    => IF last.pre_file.some
       THEN /\ last.res = Err("DatabaseExistsError")
            /\ file = last.pre_file
            /\ workers = last.pre_workers
            /\ handles = last.pre_handles
            /\ database = last.pre
       ELSE /\ last.res = Ok
            /\ file.some
            /\ IsOk(Client_open(file).res)
            /\ Client_open(file).database =
                  [sync_interval |-> last.sync_interval, tables |-> EmptyMap]

\* a Client::new with a sync interval was refused on the path of an open
\* store that has no worker and holds a table
C16_Witness ==
    /\ last.op = "new"
    /\ last.res = Err("DatabaseExistsError")
    /\ last.sync_interval.some
    /\ handles > 0
    /\ workers = <<>>
    /\ DOMAIN database.tables # {}

\* C17: Client::open on a path that holds no file returns DatabaseDoesNotExist
\* naming the path; the path still holds no file, no worker runs and no
\* Client is held.
C17_OpenMissing ==
    (last.op = "open" /\ ~last.pre_file.some)
    => /\ last.res = ErrNamed("DatabaseDoesNotExist", Path)
       /\ file = None
       /\ workers = <<>>
       /\ handles = 0

\* a Client::open was refused on a path that holds no file
C17_Witness ==
    /\ last.op = "open"
    /\ ~last.pre_file.some
    /\ ~IsOk(last.res)

\* C18: an open store has one worker, sleeping its sync_interval, when its
\* database has a sync_interval and none when it has not; that is the
\* sync_interval given to Client::new and the one the file holds, so the one
\* a later Client::open finds; a clone leaves the workers as they are; and
\* with no Client held no worker is left.
C18_OneWorkerIffInterval ==
    /\ Len(workers) <= 1
    /\ (handles = 0) => (workers = <<>>)
    /\ (handles > 0)
          => /\ (workers # <<>>) <=> database.sync_interval.some
             /\ \A i \in 1..Len(workers) : workers[i].d = database.sync_interval.v
    /\ (handles > 0 /\ Idle)
          => Client_open(file).database.sync_interval = database.sync_interval
    /\ (last.op = "new" /\ IsOk(last.res)) => (database.sync_interval = last.sync_interval)
    /\ (last.op = "clone")
          => (workers = last.pre_workers /\ handles = last.pre_handles + 1)

\* a store created with a sync interval was closed and opened again: it holds
\* a table and runs one worker with that interval
C18_Witness ==
    /\ last.op = "open"
    /\ IsOk(last.res)
    /\ DOMAIN database.tables # {}
    /\ Len(workers) = 1
    /\ workers[1].d = 1

\* the primary keys the table holds after a prune of db reading the clock as
\* time, over every iteration order
KeptByPrune(db, table, time) ==
    UNION {DOMAIN Client_prune(db, time, tnames, korder).database.tables[table].entries :
           tnames \in IterOrders(DOMAIN db.tables),
           korder \in IterOrders(UNION {DOMAIN db.tables[t].entries : t \in DOMAIN db.tables})}

\* C21: a successful insert, update or insert_or_update leaves the record
\* with last_timestamp set to the time the call read, which is not before the
\* call began; in a table with expire_after d a prune reading a time up to
\* that time plus d keeps the record and a prune reading a later time removes
\* it, whenever the record was first written; get, scan, query and
\* list_tables leave the whole database as it was.
C21_TimerFromLastWrite ==
    /\ (last.op \in Writes /\ IsOk(last.res))
          => LET t == database.tables[last.table]
                 e == t.entries[last.entry.primary_field]
             IN  /\ e.last_timestamp = Some(now)
                 /\ last.start <= now
                 /\ t.expire_after.some
                       => \A time \in now..(now + t.expire_after.v + 1) :
                             IF time <= now + t.expire_after.v
                             THEN last.entry.primary_field \in KeptByPrune(database, last.table, time)
                             ELSE last.entry.primary_field \notin KeptByPrune(database, last.table, time)
    /\ (last.op \in {"get", "scan", "query", "list_tables"}) => database = last.pre

\* an update rewrote a record that was by then older than the expire_after of
\* its table
C21_Witness ==
    /\ last.op = "update"
    /\ IsOk(last.res)
    /\ OnTable
    /\ PreTable.expire_after.some
    /\ Stored(last.pre, last.table, last.entry.primary_field)
    /\ Expired(PreTable.entries[last.entry.primary_field], PreTable.expire_after.v, now)
    /\ database.tables[last.table].entries[last.entry.primary_field].last_timestamp = Some(now)

\* C25, as stated: an update of a record that conforms to the schema and whose
\* primary key is not stored in the table returns EntryDoesNotExists and
\* leaves the database as it was.
C25_UpdateAbsentRejected ==
    (/\ last.op = "update"
     /\ OnTable
     /\ Conforms(PreTable, last.entry)
     /\ ~Stored(last.pre, last.table, last.entry.primary_field))
    => /\ last.res = Err("EntryDoesNotExists")
       /\ database = last.pre

\* no record of db in a table with expire_after was last touched more than
\* expire_after before time
NoneExpired(db, time) ==
    \A t \in DOMAIN db.tables :
       db.tables[t].expire_after.some
       => \A k \in DOMAIN db.tables[t].entries :
             ~Expired(db.tables[t].entries[k], db.tables[t].expire_after.v, time)

\* C26, as stated: after a save has returned Ok, neither the database in
\* memory nor the database the file reads back as holds a record that was
\* expired at the time of the save.
C26_SavePrunes ==
    (last.op = "save" /\ IsOk(last.res))
    => /\ NoneExpired(database, now)
       /\ NoneExpired(Client_open(file).database, now)

C28_BuiltEntriesValid ==
    /\ (last.op = "entry_build")
          => /\ last.res =
                   (CASE last.entry.primary_field = NotImplemented -> Err("InvalidPrimaryKey")
                      [] last.entry.primary_field # NotImplemented
                         /\ DOMAIN last.entry.fields = {}
                            -> Err("EntryMustContainFields")
                      [] OTHER -> Ok)
             /\ IsOk(last.res) <=> ebuilder = Built(last.entry)
    /\ (last.op = "set_primary_field" /\ last.key = NotImplemented)
          => last.res = Err("InvalidPrimaryKey") /\ ebuilder = NoEntryBuilder
    /\ (last.op = "entry_add_field" /\ last.key = NotImplemented)
          => last.res = Err("UnsupportedFieldType") /\ ebuilder = NoEntryBuilder
    /\ (ebuilder.stage = "built")
          => /\ ebuilder.value.primary_field # NotImplemented
             /\ get_type(ebuilder.value.primary_field) # "None"
             /\ DOMAIN ebuilder.value.fields # {}
             /\ \A k \in DOMAIN ebuilder.value.fields :
                   ebuilder.value.fields[k] # NotImplemented
             /\ ebuilder.value.last_timestamp = None

\* a build was refused for want of a field on a builder whose primary field
\* was set, and the builder is gone with the call
C28_Witness ==
    /\ last.op = "entry_build"
    /\ last.res = Err("EntryMustContainFields")
    /\ last.entry.primary_field # NotImplemented
    /\ ebuilder = NoEntryBuilder

\* C22: a step that leaves no Client held leaves no worker thread and the
\* stop channel gone with its Saver; when the Client dropped was the last one
\* of a store with a worker, the step is taken with the message received and
\* every worker thread ended; and while no Client is held no step changes the
\* database or the file.
C22_TeardownJoinsWorker ==
    [][/\ (handles' = 0) => (workers' = <<>> /\ stop' = "open")
       /\ (handles > 0 /\ handles' = 0 /\ workers # <<>>)
             => /\ stop = "received"
                /\ \A i \in 1..Len(workers) : workers[i].pc = "ended"
       /\ (handles = 0 /\ handles' = 0) => (database' = database /\ file' = file)]_vars

\* the last Client of a store with a worker has been dropped, at a time when
\* the file held a table
C22_Witness ==
    /\ last.op = "drop"
    /\ last.pre_workers # <<>>
    /\ last.pre_handles = 1
    /\ handles = 0
    /\ workers = <<>>
    /\ file.some
    /\ DOMAIN Client_open(file).database.tables # {}

\* C30, as stated: a worker that is sleeping while the stop message waits
\* goes from its sleep to its end, never to the prune.
C30_StopCheckedOnWaking ==
    [][\A i \in 1..Len(workers) :
          (stop = "sending" /\ workers[i].pc = "sleep" /\ Len(workers') = Len(workers))
          => workers'[i].pc \in {"sleep", "ended"}]_vars

\* C30: a worker polls the stop channel at the top of its loop only: it ends
\* from there and from nowhere else, and it does not start a sleep with the
\* message waiting; a worker that is sleeping while the message waits goes on
\* to the prune and from the prune to the save, which leaves the file reading
\* back as the database, and ends at the poll that follows.
C30_StopCheckedBeforeSleep ==
    [][\A i \in 1..Len(workers) :
          (Len(workers') = Len(workers))
          => LET pc == workers[i].pc
                 to == workers'[i].pc
             IN  /\ (to = "ended" /\ pc # "ended")
                       => (pc = "try_recv" /\ stop = "sending" /\ stop' = "received")
                 /\ (pc = "try_recv" /\ to = "sleep") => stop # "sending"
                 /\ stop = "sending"
                       => /\ pc = "try_recv" => to \in {"try_recv", "ended"}
                          /\ pc = "sleep" => to \in {"sleep", "prune"}
                          /\ pc = "prune" => to \in {"prune", "save"}
                          /\ pc = "save" => to \in {"save", "try_recv"}
                          /\ (pc = "save" /\ to = "try_recv")
                                => Client_open(file').database = database']_vars

\* with the stop message waiting, a worker is past its sleep and about to
\* save a database that the file does not hold yet
C30_Witness ==
    /\ stop = "sending"
    /\ \E i \in 1..Len(workers) : workers[i].pc = "save"
    /\ Client_open(file).database # database

\* C23: a thread inside a Client operation is the one holder of the lock from
\* the head of the operation to its return, so no two threads are inside at
\* once; and what an operation returns and leaves in the database and the file
\* is what its body, run in one piece, makes of the database and the file it
\* found when it took the lock: the operations take effect one after another
\* in the order in which they took the lock.
C23_OperationsSerialized ==
    /\ \A i \in DOMAIN threads : threads[i].pc # "idle" => lock.holder = Some(i)
    /\ (last.op # "none" /\ ~last.lock.poisoned)
          => LET r == Outcome(last, last.pre, last.pre_file) IN
             /\ last.res = r.res
             /\ last.out_entry = r.out_entry
             /\ last.items = r.items
             /\ last.names = r.names
             /\ last.deleted = r.deleted
             /\ database = r.database
             /\ file = r.file

\* a delete_many through one of two handles has deleted a record, item by
\* item, while the worker stood at its prune
C23_Witness ==
    /\ last.op = "delete_many"
    /\ last.deleted = 1
    /\ handles = 2
    /\ workers[1].pc = "prune"

\* C24: an operation called while the lock is poisoned returns
\* Err(UnableToGetLock) and nothing else, the database, the file and the lock
\* are as it found them, and the thread that called it through a handle is
\* there to hold the error.
C24_PoisonedLockReported ==
    (last.op # "none" /\ last.lock.poisoned)
    => /\ last.res = Err("UnableToGetLock")
       /\ last.out_entry = Entry_new
       /\ last.items = <<>>
       /\ last.names = <<>>
       /\ last.deleted = 0
       /\ database = last.pre
       /\ file = last.pre_file
       /\ lock = last.lock
       /\ last.client # 0
             => /\ last.client \in DOMAIN threads
                /\ threads[last.client].pc = "idle"

\* a thread has panicked inside the lock, and an insert through a handle into
\* the registered table has come back from the poisoned lock
C24_Witness ==
    /\ last.op = "insert"
    /\ last.client # 0
    /\ last.lock.poisoned
    /\ last.res = Err("UnableToGetLock")
    /\ last.table \in DOMAIN database.tables

\* C27: the Arc of every Client, the worker's among them, points at the one
\* Database: an operation that has just taken the lock through any handle has
\* before it the database as the operation before left it, and what an
\* operation has written through one handle is what every handle points at.
C27_OneSharedDatabase ==
    /\ \A i \in DOMAIN threads : Deref(threads[i].database) = database
    /\ \A i \in DOMAIN threads : threads[i].pc = "locked" => threads[i].call.pre = database
    /\ (last.op # "none" /\ ~last.lock.poisoned)
          => \A j \in DOMAIN threads :
                Deref(threads[j].database) = Outcome(last, last.pre, last.pre_file).database

\* while two callers hold a handle, the prune of the worker has removed a
\* record, which only a caller can have written
C27_Witness ==
    /\ last.op = "prune"
    /\ last.client = 0
    /\ IsOk(last.res)
    /\ last.pre # database
    /\ 2 \in DOMAIN threads

C39_SavedImageIsOneState ==
    (last.op = "save" /\ IsOk(last.res))
    => LET r == Client_open(file) IN
       /\ IsOk(r.res)
       /\ r.database = last.pre
       /\ database = last.pre

\* the worker has saved a table holding a record while two callers held a
\* handle
C39_Witness ==
    /\ last.op = "save"
    /\ last.client = 0
    /\ IsOk(last.res)
    /\ 2 \in DOMAIN threads
    /\ "MyTable" \in DOMAIN database.tables
    /\ database.tables["MyTable"].entries # EmptyMap

\* C35: Database::create_table on the registry returns Ok whatever the registry
\* holds, and leaves under the name exactly the table it was given, with no
\* record in it: a table registered under that name before is gone, schema and
\* records, and the other tables stay.
C35_RegistryOverwrites ==
    (last.op = "Database::create_table")
    => /\ IsOk(last.res)
       /\ DOMAIN database.tables = DOMAIN last.pre.tables \cup {last.table}
       /\ database.tables[last.table] = last.new_table
       /\ database.tables[last.table].entries = EmptyMap
       /\ \A t \in DOMAIN last.pre.tables \ {last.table} :
             database.tables[t] = last.pre.tables[t]

\* the registry was given a table under a name that held a table of another
\* schema with a record in it
C35_Witness ==
    /\ last.op = "Database::create_table"
    /\ last.table \in DOMAIN last.pre.tables
    /\ last.pre.tables[last.table].entries # EmptyMap
    /\ last.pre.tables[last.table].expire_after # last.new_table.expire_after

\* C37: a write that returns MismatchedFieldType, UnsupportedField or
\* MissingRequiredField leaves the database as it found it.
C37_RejectedWriteChangesNothing ==
    (last.op \in Writes /\
     last.res.err \in {"MismatchedFieldType", "UnsupportedField", "MissingRequiredField"})
    => database = last.pre

\* an insert_or_update of a record that lacks the required field was rejected
\* at a later time than the stored record of that key was written
C37_Witness ==
    /\ last.op = "insert_or_update"
    /\ last.res.err = "MissingRequiredField"
    /\ Stored(last.pre, last.table, last.entry.primary_field)
    /\ last.pre.tables[last.table].entries[last.entry.primary_field].last_timestamp.v < now

\* C38: every stored record has its last_timestamp set, in a database read back
\* from the file as well, and the record a write has stored carries the clock
\* reading of the write, whatever last_timestamp the caller's record had.
C38_StoredAreStamped ==
    /\ \A t \in DOMAIN database.tables : \A k \in DOMAIN database.tables[t].entries :
          database.tables[t].entries[k].last_timestamp.some
    /\ (last.op \in Writes /\ IsOk(last.res))
          => LET e == database.tables[last.table].entries[last.entry.primary_field] IN
             /\ e.last_timestamp.some
             /\ e.last_timestamp.v >= last.start
             /\ e.last_timestamp.v <= now

\* an insert of a record that came with a last_timestamp of the caller's
\* has stored it, in a database that is what the file holds
C38_Witness ==
    /\ last.op = "insert"
    /\ IsOk(last.res)
    /\ last.entry.last_timestamp.some
    /\ last.pre_file # None
    /\ Client_open(last.pre_file).database = last.pre

\* C36: a save writes into the file it has truncated, with no temporary file:
\* when the process stops after the truncate and before the write is through,
\* the path holds an empty or cut-off file, Client::open on it fails with the
\* decompression or the serialization error, and no database is read back.
C36_TornFileDoesNotOpen ==
    last.op = "crash"
        => /\ file.some
           /\ file # last.pre_file
           /\ Client_open(file).res \in {Err("DatabaseDecompressionError"),
                                         Err("DatabaseSerializationError")}
           /\ Client_open(file).database = Database_default
           /\ Client_open(file).spawned = <<>>

\* the process stopped in a save over a file that held a table, with the size
\* and a part of the block written
C36_Witness ==
    /\ last.op = "crash"
    /\ last.pre_file.some
    /\ DOMAIN Client_open(last.pre_file).database.tables # {}
    /\ file.v.size >= 0
    /\ file.v.block # <<>>

\* C32: a prune or a save of the worker that fails is left at that: the worker
\* goes on to its next cycle, and the drop of the last Client returns as it
\* does for a worker that never failed.
C32_WorkerFailureAbandoned ==
    /\ \A i \in 1..Len(workers) : workers[i].pc # "panicked"
    /\ last.op = "drop" => last.res # Panicked

\* C34: Client::new with a sync interval, whose save fails, returns the I/O
\* error, whatever the worker it has spawned has done by then, and no worker
\* is left.
C34_NewReturnsIoError ==
    (/\ last.op = "new"
     /\ last.client = 1
     /\ last.sync_interval.some
     /\ ~IsOk(last.res)
     /\ last.res # Err("DatabaseExistsError"))
        => /\ last.res = Err("DatabaseIoError")
           /\ workers = <<>>

\* C40: the save of Client::new never writes over a file that is there: of
\* two calls on one path, the one that comes to its save second leaves the
\* file of the first as it is.
C40_NewNeverOverwrites ==
    [][\A i \in DOMAIN threads :
          (/\ threads[i].pc = "save"
           /\ threads'[i].pc # "save"
           /\ file.some)
             => /\ file' = file
                /\ last'.res = Err("DatabaseExistsError")]_vars

\* the clock of the model reaches the time every sleeping worker wakes at
WakesInTime ==
    \A i \in 1..Len(workers) : workers[i].pc = "sleep" => workers[i].wake <= MaxTime

\* C33: once the last Client of a store with a worker is being dropped, the
\* worker takes the message at its next poll and ends, and the drop returns
\* with no Client and no worker left; until then the worker starts no further
\* sleep, so that at most the cycle it is in is run to its end.
C33_TeardownTerminates ==
    /\ (stop = "sending" /\ WakesInTime)
          ~> (stop = "open" /\ handles = 0 /\ workers = <<>>)
    /\ [][stop = "sending"
            => \A i \in 1..Len(workers) :
                  /\ workers'[i].pc = "sleep" => workers[i].pc = "sleep"
                  /\ workers[i].pc = "try_recv" => workers'[i].pc \in {"try_recv", "ended"}]_vars

\* the last Client is being dropped while the worker sleeps, with its sleep,
\* prune and save still ahead
C33_Witness ==
    /\ stop = "sending"
    /\ handles = 1
    /\ \E i \in 1..Len(workers) :
          /\ workers[i].pc = "sleep"
          /\ now < workers[i].wake
          /\ workers[i].wake <= MaxTime

====
